---- MODULE Spec2Model ----
(***************************************************************************)
(* Food recipe bot (WhatsApp / Telegram gateway).                          *)
(*                                                                         *)
(* Text values are sequences of one-character strings, so that strip,      *)
(* lower, split, substring containment and regular-expression matching     *)
(* are computed character by character, as Python computes them.           *)
(* Python's None, where a text may stand, is the one-element sequence      *)
(* None, which no text equals; an optional integer is <<>> (None) or the   *)
(* one-element sequence <<n>>; an absent record is a record of type "None".*)
(***************************************************************************)
EXTENDS Integers, Sequences, FiniteSets, TLC

VARIABLES
    \* process configuration, read from the environment at import time
    WHATSAPP_ACCESS_TOKEN, WHATSAPP_APP_SECRET,
    TELEGRAM_BOT_TOKEN, TELEGRAM_WEBHOOK_SECRET,
    \* the request being answered, and what its handler did
    request, response, parsed_message, ops,
    \* collaborators: outbound transport and the framework's task runner
    outbox, background_tasks, handled,
    \* the database with the QR image file, the calls made to the recipe and
    \* payment backends, and the deferred job that ran last (the jobs started,
    \* where jobs overlap)
    store, calls, job,
    \* harness of the pure functions: argument, results, position
    arg, ret, ret2, phase

vars == <<WHATSAPP_ACCESS_TOKEN, WHATSAPP_APP_SECRET,
          TELEGRAM_BOT_TOKEN, TELEGRAM_WEBHOOK_SECRET,
          request, response, parsed_message, ops,
          outbox, background_tasks, handled,
          store, calls, job,
          arg, ret, ret2, phase>>

None == <<"None">>

\* no request, no response, no parsed message
NoRecord == [type |-> "None"]

-----------------------------------------------------------------------------
(* Bounds *)

\* number of webhook requests one behaviour handles
MaxRequests == 2
\* length of the free suffix of a sanitize_input argument
MaxTail == 3
\* number of calls to the payment provider one behaviour makes
MaxPaymentCalls == 3

-----------------------------------------------------------------------------
(* Python string primitives *)

Min(S) == CHOOSE m \in S : \A n \in S : m <= n

\* str.isspace() on the characters used here
IsSpace(c) == c \in {" ", "\t", "\n"}

\* str.strip()
Strip(s) ==
    IF \A i \in 1..Len(s) : IsSpace(s[i])
    THEN <<>>
    ELSE LET first == CHOOSE i \in 1..Len(s) :
                        ~IsSpace(s[i]) /\ \A j \in 1..(i - 1) : IsSpace(s[j])
             last  == CHOOSE i \in 1..Len(s) :
                        ~IsSpace(s[i]) /\ \A j \in (i + 1)..Len(s) : IsSpace(s[j])
         IN  SubSeq(s, first, last)

\* "a" * n
Repeat(c, n) == [i \in 1..n |-> c]

UpperToLower ==
    "A" :> "a" @@ "B" :> "b" @@ "C" :> "c" @@ "D" :> "d" @@ "E" :> "e" @@
    "F" :> "f" @@ "G" :> "g" @@ "H" :> "h" @@ "I" :> "i" @@ "J" :> "j" @@
    "K" :> "k" @@ "L" :> "l" @@ "M" :> "m" @@ "N" :> "n" @@ "O" :> "o" @@
    "P" :> "p" @@ "Q" :> "q" @@ "R" :> "r" @@ "S" :> "s" @@ "T" :> "t" @@
    "U" :> "u" @@ "V" :> "v" @@ "W" :> "w" @@ "X" :> "x" @@ "Y" :> "y" @@
    "Z" :> "z"

\* str.lower()
Lower(s) ==
    [i \in 1..Len(s) |->
        IF s[i] \in DOMAIN UpperToLower THEN UpperToLower[s[i]] ELSE s[i]]

\* sub in s
Contains(sub, s) ==
    \E i \in 0..(Len(s) - Len(sub)) : SubSeq(s, i + 1, i + Len(sub)) = sub

\* s.startswith(prefix)
StartsWith(s, prefix) ==
    Len(s) >= Len(prefix) /\ SubSeq(s, 1, Len(prefix)) = prefix

\* s.split(sep), sep one character
RECURSIVE Split(_, _)
Split(s, sep) ==
    IF \A i \in 1..Len(s) : s[i] # sep
    THEN <<s>>
    ELSE LET i == CHOOSE k \in 1..Len(s) :
                    s[k] = sep /\ \A j \in 1..(k - 1) : s[j] # sep
         IN  <<SubSeq(s, 1, i - 1)>> \o Split(SubSeq(s, i + 1, Len(s)), sep)

Digits == <<"0", "1", "2", "3", "4", "5", "6", "7", "8", "9">>

IsDigit(c) == \E d \in 1..10 : Digits[d] = c

DigitValue(c) == (CHOOSE d \in 1..10 : Digits[d] = c) - 1

\* int(s) of a non-empty run of digits
RECURSIVE DigitsToInt(_)
DigitsToInt(s) ==
    IF s = <<>> THEN 0
    ELSE 10 * DigitsToInt(SubSeq(s, 1, Len(s) - 1)) + DigitValue(s[Len(s)])

-----------------------------------------------------------------------------
(* utils/helpers.py *)

\* the character class [<>{}[\]\\]
HarmfulChars == {"<", ">", "{", "}", "[", "]", "\\"}

\* sanitized[:500]
SanitizeLimit == 500

IsSafeChar(c) == c \notin HarmfulChars

\* sanitize_input without the cut to 500 characters
sanitize_input_Uncut(text) ==
    IF text = None \/ text = <<>>
    THEN <<>>
    ELSE SelectSeq(Strip(text), IsSafeChar)

sanitize_input(text) ==
    IF text = None \/ text = <<>>
    THEN <<>>
    ELSE LET sanitized == SelectSeq(Strip(text), IsSafeChar)
         IN  SubSeq(sanitized, 1, Min({Len(sanitized), SanitizeLimit}))

-----------------------------------------------------------------------------
(* integrations/whatsapp_api_working_with_payment.py: signature *)

\* Python truthiness of an optional text: None and "" are false
Truthy(text) == text # None /\ text # <<>>

\* hmac.new(key, msg, hashlib.sha256).hexdigest(): the digest is a symbolic
\* term over key and message (equal digests only for equal key and message)
hmac_sha256_hexdigest(key, msg) == [type |-> "hexdigest", key |-> key, msg |-> msg]

\* the header value f"sha256={hexdigest}": its scheme prefix and what follows
SignatureHeader(scheme, hexdigest) ==
    [type |-> "signature", scheme |-> scheme, hexdigest |-> hexdigest]

\* headers.get("X-Hub-Signature-256", ""): the empty string
EmptyHeader == SignatureHeader("", NoRecord)

\* verify_whatsapp_webhook accepting a header without the sha256= prefix
verify_whatsapp_webhook_FailOpen(req, body) ==
    IF WHATSAPP_APP_SECRET = <<>>
    THEN TRUE
    ELSE LET signature == IF req.headers.X_Hub_Signature_256 = NoRecord
                          THEN EmptyHeader
                          ELSE req.headers.X_Hub_Signature_256
         IN  IF signature.scheme # "sha256="
             THEN TRUE
             ELSE SignatureHeader("sha256=",
                      hmac_sha256_hexdigest(WHATSAPP_APP_SECRET, body)) = signature

verify_whatsapp_webhook(req, body) ==
    IF WHATSAPP_APP_SECRET = <<>>
    THEN TRUE
    ELSE LET signature == IF req.headers.X_Hub_Signature_256 = NoRecord
                          THEN EmptyHeader
                          ELSE req.headers.X_Hub_Signature_256
         IN  IF signature.scheme # "sha256="
             THEN FALSE
             ELSE LET expected_signature ==
                          hmac_sha256_hexdigest(WHATSAPP_APP_SECRET, body)
                  IN  SignatureHeader("sha256=", expected_signature) = signature

-----------------------------------------------------------------------------
(* integrations/whatsapp_api_working_with_payment.py: parse_whatsapp_message *)

PaymentRequestWords == <<
    <<"p", "a", "y">>,
    <<"p", "a", "y", "m", "e", "n", "t">>,
    <<"p", "r", "e", "m", "i", "u", "m">>,
    <<"u", "p", "g", "r", "a", "d", "e">>,
    <<"s", "u", "b", "s", "c", "r", "i", "b", "e">>,
    <<"b", "u", "y">> >>

PaymentStatusWords == <<
    <<"p", "a", "y", "m", "e", "n", "t", " ", "s", "t", "a", "t", "u", "s">>,
    <<"s", "t", "a", "t", "u", "s", " ", "o", "f", " ", "p", "a", "y", "m", "e", "n", "t">>,
    <<"p", "a", "y", "m", "e", "n", "t", " ", "i", "n", "f", "o">>,
    <<"m", "y", " ", "p", "a", "y", "m", "e", "n", "t", "s">> >>

PaymentConfirmationWords == <<
    <<"c", "o", "n", "f", "i", "r", "m", " ", "p", "a", "y", "m", "e", "n", "t">>,
    <<"p", "a", "i", "d">>,
    <<"p", "a", "y", "m", "e", "n", "t", " ", "d", "o", "n", "e">>,
    <<"i", " ", "p", "a", "i", "d">> >>

AccountInfoWords == <<
    <<"m", "y", " ", "a", "c", "c", "o", "u", "n", "t">>,
    <<"a", "c", "c", "o", "u", "n", "t", " ", "i", "n", "f", "o">>,
    <<"p", "r", "e", "m", "i", "u", "m", " ", "s", "t", "a", "t", "u", "s">> >>

StartWords == <<
    <<"s", "t", "a", "r", "t">>,
    <<"h", "e", "l", "l", "o">>,
    <<"h", "i">>,
    <<"h", "e", "y">>,
    <<"g", "o", "o", "d", " ", "m", "o", "r", "n", "i", "n", "g">>,
    <<"g", "o", "o", "d", " ", "e", "v", "e", "n", "i", "n", "g">> >>

HelpWords == <<
    <<"h", "e", "l", "p">>,
    <<"s", "u", "p", "p", "o", "r", "t">>,
    <<"a", "s", "s", "i", "s", "t", "a", "n", "c", "e">>,
    <<"i", "s", "s", "u", "e">>,
    <<"c", "o", "m", "p", "l", "a", "i", "n", "t">> >>

MoreWords == <<
    <<"m", "o", "r", "e">> >>

ThankYouWords == <<
    <<"t", "h", "a", "n", "k">>,
    <<"t", "h", "a", "n", "k", "s">>,
    <<"a", "p", "p", "r", "e", "c", "i", "a", "t", "e">>,
    <<"g", "r", "a", "t", "e", "f", "u", "l">> >>

GoodbyeWords == <<
    <<"b", "y", "e">>,
    <<"g", "o", "o", "d", "b", "y", "e">>,
    <<"s", "e", "e", " ", "y", "o", "u">>,
    <<"f", "a", "r", "e", "w", "e", "l", "l">> >>

HowAreYouWords == <<
    <<"h", "o", "w", " ", "a", "r", "e", " ", "y", "o", "u">>,
    <<"h", "o", "w", " ", "d", "o", " ", "y", "o", "u", " ", "d", "o">>,
    <<"h", "o", "w", "'", "s", " ", "i", "t", " ", "g", "o", "i", "n", "g">> >>

CapabilitiesWords == <<
    <<"w", "h", "a", "t", " ", "c", "a", "n", " ", "y", "o", "u", " ", "d", "o">>,
    <<"c", "a", "p", "a", "b", "i", "l", "i", "t", "i", "e", "s">>,
    <<"f", "e", "a", "t", "u", "r", "e", "s">> >>

\* any(word in body_lower for word in words)
AnyWordIn(words, body_lower) ==
    \E k \in 1..Len(words) : Contains(words[k], body_lower)

\* the keyword chain with the conversational checks before the payment checks
KeywordType_ConversationFirst(body_lower) ==
    IF AnyWordIn(StartWords, body_lower) THEN "start"
    ELSE IF AnyWordIn(HelpWords, body_lower) THEN "help"
    ELSE IF AnyWordIn(MoreWords, body_lower) THEN "more_options"
    ELSE IF AnyWordIn(ThankYouWords, body_lower) THEN "thank_you"
    ELSE IF AnyWordIn(GoodbyeWords, body_lower) THEN "goodbye"
    ELSE IF AnyWordIn(HowAreYouWords, body_lower) THEN "how_are_you"
    ELSE IF AnyWordIn(CapabilitiesWords, body_lower) THEN "capabilities"
    ELSE IF AnyWordIn(PaymentRequestWords, body_lower) THEN "payment_request"
    ELSE IF AnyWordIn(PaymentStatusWords, body_lower) THEN "payment_status"
    ELSE IF AnyWordIn(PaymentConfirmationWords, body_lower) THEN "payment_confirmation"
    ELSE IF AnyWordIn(AccountInfoWords, body_lower) THEN "account_info"
    ELSE ""

\* the if / elif chains of the keyword commands; "" when none applies
KeywordType(body_lower) ==
    IF AnyWordIn(PaymentRequestWords, body_lower) THEN "payment_request"
    ELSE IF AnyWordIn(PaymentStatusWords, body_lower) THEN "payment_status"
    ELSE IF AnyWordIn(PaymentConfirmationWords, body_lower) THEN "payment_confirmation"
    ELSE IF AnyWordIn(AccountInfoWords, body_lower) THEN "account_info"
    ELSE IF AnyWordIn(StartWords, body_lower) THEN "start"
    ELSE IF AnyWordIn(HelpWords, body_lower) THEN "help"
    ELSE IF AnyWordIn(MoreWords, body_lower) THEN "more_options"
    ELSE IF AnyWordIn(ThankYouWords, body_lower) THEN "thank_you"
    ELSE IF AnyWordIn(GoodbyeWords, body_lower) THEN "goodbye"
    ELSE IF AnyWordIn(HowAreYouWords, body_lower) THEN "how_are_you"
    ELSE IF AnyWordIn(CapabilitiesWords, body_lower) THEN "capabilities"
    ELSE ""

NonBlank(s) == Strip(s) # <<>>

StripAndSanitize(s) == sanitize_input(Strip(s))

MapSeq(Op(_), xs) == [i \in 1..Len(xs) |-> Op(xs[i])]

\* re.search(r'(\d+)', s): the first run of digits as <<n>>, <<>> without one
SearchDigits(s) ==
    IF \A i \in 1..Len(s) : ~IsDigit(s[i])
    THEN <<>>
    ELSE LET first == CHOOSE i \in 1..Len(s) :
                        IsDigit(s[i]) /\ \A j \in 1..(i - 1) : ~IsDigit(s[j])
             last  == CHOOSE i \in first..Len(s) :
                        /\ \A j \in first..i : IsDigit(s[j])
                        /\ (i = Len(s) \/ ~IsDigit(s[i + 1]))
         IN  <<DigitsToInt(SubSeq(s, first, last))>>

\* line.split(':', 1)[1] of a line that holds a colon
AfterColon(line) ==
    LET i == CHOOSE k \in 1..Len(line) :
                 line[k] = ":" /\ \A j \in 1..(k - 1) : line[j] # ":"
    IN  SubSeq(line, i + 1, Len(line))

\* the length of what r'^\d+\.' matches at the start of line, 0 without a match
NumberLabel(line) ==
    IF line = <<>> \/ ~IsDigit(line[1]) THEN 0
    ELSE LET last == CHOOSE i \in 1..Len(line) :
                         /\ \A j \in 1..i : IsDigit(line[j])
                         /\ (i = Len(line) \/ ~IsDigit(line[i + 1]))
         IN  IF last < Len(line) /\ line[last + 1] = "." THEN last + 1 ELSE 0

\* str.lstrip()
LStrip(s) ==
    IF \A i \in 1..Len(s) : IsSpace(s[i]) THEN <<>>
    ELSE SubSeq(s, CHOOSE i \in 1..Len(s) :
                       ~IsSpace(s[i]) /\ \A j \in 1..(i - 1) : IsSpace(s[j]),
                Len(s))

TitleKey == <<"t", "i", "t", "l", "e", ":">>
IngredientsKey == <<"i", "n", "g", "r", "e", "d", "i", "e", "n", "t", "s", ":">>
InstructionsKey == <<"i", "n", "s", "t", "r", "u", "c", "t", "i", "o", "n", "s", ":">>
StepsKey == <<"s", "t", "e", "p", "s", ":">>
CookingTimeKey == <<"c", "o", "o", "k", "i", "n", "g", " ", "t", "i", "m", "e", ":">>
DifficultyKey == <<"d", "i", "f", "f", "i", "c", "u", "l", "t", "y", ":">>

\* recipe_data as parse_recipe_from_llm starts with
DefaultRecipeData ==
    [title |-> <<>>, ingredients |-> <<>>, instructions |-> <<>>,
     cooking_time |-> 0, difficulty |-> <<"M", "e", "d", "i", "u", "m">>]

\* the loop of parse_recipe_from_llm over the lines left; raised is the
\* exception of the try block
RECURSIVE ParseLines(_, _, _)
ParseLines(lines, recipe_data, current_section) ==
    IF lines = <<>>
    THEN [raised |-> FALSE, recipe |-> recipe_data]
    ELSE LET line == Strip(Head(lines))
             lower == Lower(line)
             rest == Tail(lines)
         IN  IF line = <<>>
             THEN ParseLines(rest, recipe_data, current_section)
             ELSE IF Contains(TitleKey, lower)
             THEN ParseLines(rest,
                      [recipe_data EXCEPT !.title = Strip(AfterColon(line))],
                      current_section)
             ELSE IF Contains(IngredientsKey, lower)
             THEN ParseLines(rest, recipe_data, "ingredients")
             ELSE IF Contains(InstructionsKey, lower) \/ Contains(StepsKey, lower)
             THEN ParseLines(rest, recipe_data, "instructions")
             ELSE IF Contains(CookingTimeKey, lower)
             THEN LET found == SearchDigits(Strip(AfterColon(line)))
                  IN  IF found = <<>>
                      \* re.findall(...)[0]: IndexError
                      THEN [raised |-> TRUE, recipe |-> NoRecord]
                      ELSE ParseLines(rest,
                               [recipe_data EXCEPT !.cooking_time = found[1]],
                               current_section)
             ELSE IF Contains(DifficultyKey, lower)
             THEN ParseLines(rest,
                      [recipe_data EXCEPT !.difficulty = Strip(AfterColon(line))],
                      current_section)
             ELSE IF current_section = "ingredients" /\ line[1] = "-"
             THEN ParseLines(rest,
                      [recipe_data EXCEPT
                          !.ingredients = Append(@, Strip(Tail(line)))],
                      current_section)
             ELSE IF current_section = "instructions" /\ NumberLabel(line) > 0
             THEN ParseLines(rest,
                      [recipe_data EXCEPT
                          !.instructions =
                              Append(@, LStrip(SubSeq(line, NumberLabel(line) + 1,
                                                      Len(line))))],
                      current_section)
             ELSE ParseLines(rest, recipe_data, current_section)

\* parse_recipe_from_llm; raised is its ValueError
parse_recipe_from_llm(response_text) ==
    ParseLines(Split(response_text, "\n"), DefaultRecipeData, "None")

\* the tokenizer of parse_whatsapp_message without its "if not ingredients"
WhatsappRecipeRequest_NoEmptyCheck(from_number, body_text) ==
    LET parts == Split(body_text, "|")
        ingredients == MapSeq(StripAndSanitize, SelectSeq(Split(parts[1], ","), NonBlank))
    IN  [type |-> "recipe_request",
         from_number |-> from_number,
         ingredients |-> ingredients,
         cuisine |-> IF Len(parts) > 1 /\ NonBlank(parts[2])
                     THEN StripAndSanitize(parts[2]) ELSE None,
         dietary_restrictions |->
                     IF Len(parts) > 2 /\ NonBlank(parts[3])
                     THEN MapSeq(StripAndSanitize, Split(parts[3], ","))
                     ELSE <<>>,
         cooking_time |-> IF Len(parts) > 3 /\ NonBlank(parts[4])
                          THEN SearchDigits(Strip(parts[4])) ELSE <<>>,
         original_text |-> body_text]

\* "Parse ingredients and options" of parse_whatsapp_message
WhatsappRecipeRequest(from_number, body_text) ==
    LET parts == Split(body_text, "|")
        ingredients == MapSeq(StripAndSanitize, SelectSeq(Split(parts[1], ","), NonBlank))
    IN  IF ingredients = <<>>
        THEN [type |-> "no_ingredients", from_number |-> from_number]
        ELSE [type |-> "recipe_request",
              from_number |-> from_number,
              ingredients |-> ingredients,
              cuisine |-> IF Len(parts) > 1 /\ NonBlank(parts[2])
                          THEN StripAndSanitize(parts[2]) ELSE None,
              dietary_restrictions |->
                          IF Len(parts) > 2 /\ NonBlank(parts[3])
                          THEN MapSeq(StripAndSanitize, Split(parts[3], ","))
                          ELSE <<>>,
              cooking_time |-> IF Len(parts) > 3 /\ NonBlank(parts[4])
                               THEN SearchDigits(Strip(parts[4])) ELSE <<>>,
              original_text |-> body_text]

\* parse_whatsapp_message reading the id of a list reply where a button reply has it
ParseMessage_OneReplyId(message) ==
    LET from_number == message.from
    IN  IF message.type = "interactive" /\ message.interactive_type = "button_reply"
        THEN [type |-> "button_interaction", from_number |-> from_number,
              button_id |-> message.button_reply_id]
        ELSE IF message.type = "interactive" /\ message.interactive_type = "list_reply"
        THEN [type |-> "list_interaction", from_number |-> from_number,
              list_id |-> message.button_reply_id]
        ELSE IF message.type # "text"
        THEN [type |-> "unsupported", from_number |-> from_number]
        ELSE LET body_text == Strip(message.body)
                 body_lower == Lower(body_text)
             IN  IF body_text = <<>>
                 THEN [type |-> "empty", from_number |-> from_number]
                 ELSE IF KeywordType(body_lower) # ""
                 THEN [type |-> KeywordType(body_lower), from_number |-> from_number]
                 ELSE WhatsappRecipeRequest(from_number, body_text)

\* what parse_whatsapp_message returns for messages[0] of a value
ParseMessage(message) ==
    LET from_number == message.from
    IN  IF message.type = "interactive" /\ message.interactive_type = "button_reply"
        THEN [type |-> "button_interaction", from_number |-> from_number,
              button_id |-> message.button_reply_id]
        ELSE IF message.type = "interactive" /\ message.interactive_type = "list_reply"
        THEN [type |-> "list_interaction", from_number |-> from_number,
              list_id |-> message.list_reply_id]
        ELSE IF message.type # "text"
        THEN [type |-> "unsupported", from_number |-> from_number]
        ELSE LET body_text == Strip(message.body)
                 body_lower == Lower(body_text)
             IN  IF body_text = <<>>
                 THEN [type |-> "empty", from_number |-> from_number]
                 ELSE IF KeywordType(body_lower) # ""
                 THEN [type |-> KeywordType(body_lower), from_number |-> from_number]
                 ELSE WhatsappRecipeRequest(from_number, body_text)

RECURSIVE Concat(_)
Concat(seqs) == IF seqs = <<>> THEN <<>> ELSE Head(seqs) \o Concat(Tail(seqs))

ChangesOf(entry) == entry.changes

\* the loop skips a value without messages or whose first message has no sender
HasSender(change) ==
    change.value.messages # <<>> /\ Truthy(change.value.messages[1].from)

parse_whatsapp_message(webhook_data) ==
    LET changes == Concat(MapSeq(ChangesOf, webhook_data.entry))
        usable == SelectSeq(changes, HasSender)
    IN  IF usable = <<>> THEN NoRecord
        ELSE ParseMessage(usable[1].value.messages[1])

-----------------------------------------------------------------------------
(* integrations/telegram_bot.py *)

verify_telegram_webhook(req) ==
    IF TELEGRAM_WEBHOOK_SECRET = <<>>
    THEN TRUE
    ELSE LET signature == IF req.headers.X_Telegram_Bot_Api_Secret_Token = None
                          THEN <<>>
                          ELSE req.headers.X_Telegram_Bot_Api_Secret_Token
         IN  signature = TELEGRAM_WEBHOOK_SECRET

\* int(s) for a stripped s: <<n>>, or <<>> where Python raises ValueError
PyInt(s) ==
    LET signed == s # <<>> /\ s[1] \in {"+", "-"}
        digits == IF signed THEN Tail(s) ELSE s
    IN  IF digits = <<>> \/ \E i \in 1..Len(digits) : ~IsDigit(digits[i])
        THEN <<>>
        ELSE IF signed /\ s[1] = "-"
        THEN <<0 - DigitsToInt(digits)>>
        ELSE <<DigitsToInt(digits)>>

RecipeCommand == <<"/", "r", "e", "c", "i", "p", "e">>
StartCommand == <<"/", "s", "t", "a", "r", "t">>
HelpCommand == <<"/", "h", "e", "l", "p">>

\* "Parse ingredients and options" of parse_telegram_message
TelegramRecipeRequest(chat_id, message_text) ==
    LET parts == Split(message_text, "|")
        ingredients == MapSeq(StripAndSanitize, SelectSeq(Split(parts[1], ","), NonBlank))
    IN  IF ingredients = <<>>
        THEN [type |-> "error", chat_id |-> chat_id, error |-> "No ingredients provided"]
        ELSE [type |-> "recipe_request",
              chat_id |-> chat_id,
              ingredients |-> ingredients,
              cuisine |-> IF Len(parts) > 1 /\ NonBlank(parts[2])
                          THEN StripAndSanitize(parts[2]) ELSE None,
              dietary_restrictions |->
                          IF Len(parts) > 2 /\ NonBlank(parts[3])
                          THEN MapSeq(StripAndSanitize,
                                      SelectSeq(Split(parts[3], ","), NonBlank))
                          ELSE <<>>,
              cooking_time |-> IF Len(parts) > 3 /\ NonBlank(parts[4])
                               THEN PyInt(Strip(parts[4])) ELSE <<>>]

\* parse_telegram_message taking /recipe in any case
parse_telegram_message_AnyCase(update) ==
    IF update.message = NoRecord \/ update.message.text = None
    THEN NoRecord
    ELSE IF update.message.chat = NoRecord
    THEN NoRecord   \* KeyError, caught: return None
    ELSE LET stripped == Strip(update.message.text)
             chat_id == update.message.chat.id
             message_text ==
                 IF StartsWith(Lower(stripped), RecipeCommand)
                 THEN Strip(SubSeq(stripped, Len(RecipeCommand) + 1, Len(stripped)))
                 ELSE stripped
         IN  IF StartsWith(stripped, StartCommand)
             THEN [type |-> "start", chat_id |-> chat_id, message |-> message_text]
             ELSE IF StartsWith(stripped, HelpCommand)
             THEN [type |-> "help", chat_id |-> chat_id, message |-> message_text]
             ELSE IF message_text = <<>>
             THEN [type |-> "empty", chat_id |-> chat_id, message |-> message_text]
             ELSE TelegramRecipeRequest(chat_id, message_text)

parse_telegram_message(update) ==
    IF update.message = NoRecord \/ update.message.text = None
    THEN NoRecord
    ELSE IF update.message.chat = NoRecord
    THEN NoRecord   \* KeyError, caught: return None
    ELSE LET stripped == Strip(update.message.text)
             chat_id == update.message.chat.id
             message_text ==
                 IF StartsWith(stripped, RecipeCommand)
                 THEN Strip(SubSeq(stripped, Len(RecipeCommand) + 1, Len(stripped)))
                 ELSE stripped
         IN  IF StartsWith(stripped, StartCommand)
             THEN [type |-> "start", chat_id |-> chat_id, message |-> message_text]
             ELSE IF StartsWith(stripped, HelpCommand)
             THEN [type |-> "help", chat_id |-> chat_id, message |-> message_text]
             ELSE IF message_text = <<>>
             THEN [type |-> "empty", chat_id |-> chat_id, message |-> message_text]
             ELSE TelegramRecipeRequest(chat_id, message_text)

-----------------------------------------------------------------------------
(* The recipe formatters.  A pictograph of the source is written as its  *)
(* name in brackets; a fixed piece of a message is one element of the text. *)

\* a key the dictionary does not have
KeyAbsent == <<"KeyAbsent">>

\* str(n)
RECURSIVE IntToText(_)
IntToText(n) ==
    IF n < 0 THEN <<"-">> \o IntToText(0 - n)
    ELSE IF n < 10 THEN <<Digits[n + 1]>>
    ELSE IntToText(n \div 10) \o <<Digits[(n % 10) + 1]>>

\* f"{value}" of a text or None
Formatted(value) == IF value = None THEN <<"N", "o", "n", "e">> ELSE value

\* sep.join(texts)
RECURSIVE Join(_, _)
Join(texts, sep) ==
    IF texts = <<>> THEN <<>>
    ELSE IF Len(texts) = 1 THEN texts[1]
    ELSE texts[1] \o sep \o Join(Tail(texts), sep)

NewLine == <<"\n">>

WhatsappApology ==
    <<"[cross] I couldn't generate a recipe with those ingredients. Please try different ingredients or check your formatting.">>

\* format_recipe_for_whatsapp
format_recipe_for_whatsapp(recipe) ==
    IF recipe.title \in {KeyAbsent, None} \/ recipe.title = <<>>
       \/ Strip(recipe.title) = <<>>
    THEN WhatsappApology
    ELSE Join(<<
            <<"[cooking] *Recipe Generated* [cooking]">>,
            <<"*">> \o recipe.title \o <<"*">>,
            <<>>,
            <<"*Ingredients:*">>,
            Join([i \in 1..Len(recipe.ingredients) |->
                    <<"[bullet] ">> \o recipe.ingredients[i]], NewLine),
            <<>>,
            <<"*Instructions:*">>,
            Join([idx \in 1..Len(recipe.instructions) |->
                    IntToText(idx) \o <<".", " ">> \o recipe.instructions[idx]],
                 NewLine),
            <<>>,
            <<"*Cooking Time:* ">> \o IntToText(recipe.cooking_time) \o <<" minutes">>,
            <<"*Difficulty:* ">> \o recipe.difficulty,
            <<>>,
            <<"Enjoy your meal! [plate]">>,
            <<>>,
            <<"Type 'more' for additional options or send new ingredients for another recipe.">>
         >>, NewLine)

TelegramNoIngredients == <<"get_no_ingredients_message">>

TelegramFormatError == <<"Sorry, I couldn't format the recipe properly.">>

\* format_recipe_for_telegram
format_recipe_for_telegram(recipe) ==
    IF recipe.ingredients = <<>>
    THEN TelegramNoIngredients
    ELSE IF recipe.title = KeyAbsent
    THEN TelegramFormatError   \* recipe['title'] raises KeyError
    ELSE Join(<<
            <<"*[cooking] ">> \o Formatted(recipe.title) \o <<" [cooking]*">>,
            <<>>,
            <<"*[clipboard] Ingredients:*">>,
            Join([i \in 1..Len(recipe.ingredients) |->
                    <<"[bullet] ">> \o recipe.ingredients[i]], NewLine),
            <<>>,
            <<"*[cook] Instructions:*">>,
            Join([i \in 1..Len(recipe.instructions) |->
                    IntToText(i) \o <<"\\", ".", " ">> \o recipe.instructions[i]],
                 NewLine),
            <<>>,
            <<"*[clock] Cooking Time:* ">> \o IntToText(recipe.cooking_time)
                \o <<" minutes">>,
            <<"*[chart] Difficulty:* ">> \o recipe.difficulty,
            <<>>,
            <<"*Enjoy your meal!* [plate]">>,
            <<>>,
            <<"*Recipe ID:* [backquote]">> \o recipe.recipe_id \o <<"[backquote]">>
         >>, NewLine)

-----------------------------------------------------------------------------
(* The HTTP handlers *)

\* a JSON answer {"status": status, ...}; status "" is the answer null
JsonResponse(status) ==
    [type |-> "response", status_code |-> 200, media_type |-> "application/json",
     status |-> status, content |-> None]

\* raise HTTPException(status_code, ...)
HTTPException(status_code) ==
    [type |-> "response", status_code |-> status_code,
     media_type |-> "application/json", status |-> "", content |-> None]

\* what a handler did: its answer, the message it parsed, its operations in
\* order, the messages it sent and the tasks it added
Outcome(resp, parsed, done, sends, tasks) ==
    [response |-> resp, parsed_message |-> parsed, ops |-> done,
     sends |-> sends, tasks |-> tasks]

\* request.json()
IsJson(body) == body.json

\* whatsapp_api.send_text_message(to, text), text named by its get_*_message
TextMessage(to, text) == [to |-> to, text |-> text]

\* the canned reply of the immediate WhatsApp intents
WhatsappReply ==
    [start |-> "get_welcome_message",
     help |-> "get_help_message",
     empty |-> "Please send some ingredients!",
     no_ingredients |-> "get_no_ingredients_message",
     unsupported |-> "get_unsupported_message",
     more_options |-> "Type 'help' for options or send new ingredients for another recipe.",
     thank_you |-> "get_thank_you_message",
     goodbye |-> "get_goodbye_message",
     how_are_you |-> "get_how_are_you_message",
     capabilities |-> "get_capabilities_message",
     payment_confirmation |-> "Thank you for confirming your payment. We'll verify it and update your account shortly."]

\* the task table with the payment status intent creating a payment
WhatsappTask_StatusCreatesPayment ==
    [payment_request |-> "process_payment_request",
     payment_status |-> "process_payment_request",
     account_info |-> "process_account_info_request"]

\* the background task of the deferred WhatsApp intents
WhatsappTask ==
    [payment_request |-> "process_payment_request",
     payment_status |-> "process_payment_status_request",
     account_info |-> "process_account_info_request"]

\* the dispatch of whatsapp_webhook without its "if not parsed_message":
\* parsed_message["type"] of None raises, except Exception answers 500
WhatsappDispatch_NoIgnore(parsed, done) ==
    IF parsed = NoRecord \/ ~Truthy(parsed.from_number)
    THEN Outcome(HTTPException(500), parsed, done, <<>>, <<>>)
    ELSE IF parsed.type \in DOMAIN WhatsappReply
    THEN Outcome(JsonResponse("success"), parsed, done \o <<"send">>,
                 <<TextMessage(parsed.from_number, WhatsappReply[parsed.type])>>, <<>>)
    ELSE IF parsed.type \in DOMAIN WhatsappTask
    THEN Outcome(JsonResponse("processing"), parsed, done \o <<"add_task">>, <<>>,
                 <<[func |-> WhatsappTask[parsed.type],
                    from_number |-> parsed.from_number]>>)
    ELSE IF parsed.type = "recipe_request"
    THEN Outcome(JsonResponse("processing"), parsed, done \o <<"add_task">>, <<>>,
                 <<[func |-> "process_recipe_request",
                    from_number |-> parsed.from_number,
                    recipe_request |->
                        [ingredients |-> parsed.ingredients,
                         cuisine |-> parsed.cuisine,
                         dietary_restrictions |-> parsed.dietary_restrictions,
                         cooking_time |-> parsed.cooking_time]]>>)
    ELSE Outcome(JsonResponse(""), parsed, done, <<>>, <<>>)

\* the try block of whatsapp_webhook, from the parsed message on
WhatsappDispatch(parsed, done) ==
    IF parsed = NoRecord \/ ~Truthy(parsed.from_number)
    THEN Outcome(JsonResponse("ignored"), parsed, done, <<>>, <<>>)
    ELSE IF parsed.type \in DOMAIN WhatsappReply
    THEN Outcome(JsonResponse("success"), parsed, done \o <<"send">>,
                 <<TextMessage(parsed.from_number, WhatsappReply[parsed.type])>>, <<>>)
    ELSE IF parsed.type \in DOMAIN WhatsappTask
    THEN Outcome(JsonResponse("processing"), parsed, done \o <<"add_task">>, <<>>,
                 <<[func |-> WhatsappTask[parsed.type],
                    from_number |-> parsed.from_number]>>)
    ELSE IF parsed.type = "recipe_request"
    THEN Outcome(JsonResponse("processing"), parsed, done \o <<"add_task">>, <<>>,
                 <<[func |-> "process_recipe_request",
                    from_number |-> parsed.from_number,
                    recipe_request |->
                        [ingredients |-> parsed.ingredients,
                         cuisine |-> parsed.cuisine,
                         dietary_restrictions |-> parsed.dietary_restrictions,
                         cooking_time |-> parsed.cooking_time]]>>)
    ELSE Outcome(JsonResponse(""), parsed, done, <<>>, <<>>)

\* the try block of whatsapp_webhook; raised names the exception that left it
WhatsappTry(req) ==
    LET body_bytes == req.body
    IN  IF ~IsJson(body_bytes)
        THEN [raised |-> "JSONDecodeError",
              outcome |-> Outcome(NoRecord, NoRecord, <<"body", "json">>, <<>>, <<>>)]
        ELSE IF ~verify_whatsapp_webhook(req, body_bytes)
        THEN [raised |-> "HTTPException",
              outcome |-> Outcome(HTTPException(401), NoRecord,
                                  <<"body", "json", "verify_failed">>, <<>>, <<>>)]
        ELSE [raised |-> "",
              outcome |-> WhatsappDispatch(parse_whatsapp_message(body_bytes.data),
                                           <<"body", "json", "verify_ok", "parse">>)]

\* whatsapp_webhook with the credentials check moved into the try block
whatsapp_webhook_CheckInTry(req) ==
    IF ~Truthy(WHATSAPP_ACCESS_TOKEN)
    THEN Outcome(HTTPException(500), NoRecord, <<>>, <<>>, <<>>)
    ELSE LET try == WhatsappTry(req)
         IN  IF try.raised # ""
             THEN [try.outcome EXCEPT !.response = HTTPException(500)]
             ELSE try.outcome

\* POST /webhook/whatsapp
whatsapp_webhook(req) ==
    IF ~Truthy(WHATSAPP_ACCESS_TOKEN)
    THEN Outcome(HTTPException(501), NoRecord, <<>>, <<>>, <<>>)
    ELSE LET try == WhatsappTry(req)
         IN  IF try.raised # ""
             \* except Exception: from_number is not bound where the block raises
             THEN [try.outcome EXCEPT !.response = HTTPException(500)]
             ELSE try.outcome

\* WHATSAPP_VERIFY_TOKEN = os.getenv("WHATSAPP_ACCESS_TOKEN")
WHATSAPP_VERIFY_TOKEN == WHATSAPP_ACCESS_TOKEN

\* GET /webhook/whatsapp
verify_whatsapp_webhook_endpoint(req) ==
    LET hub_mode == req.query_params.hub_mode
        hub_verify_token == req.query_params.hub_verify_token
        hub_challenge == req.query_params.hub_challenge
    IN  IF hub_mode = <<"s", "u", "b", "s", "c", "r", "i", "b", "e">>
           /\ hub_verify_token = WHATSAPP_VERIFY_TOKEN
        THEN Outcome([type |-> "response", status_code |-> 200,
                      media_type |-> "text/plain", status |-> "",
                      content |-> hub_challenge],
                     NoRecord, <<>>, <<>>, <<>>)
        ELSE Outcome(HTTPException(403), NoRecord, <<>>, <<>>, <<>>)

\* the canned reply of the immediate Telegram intents
TelegramReply ==
    [start |-> "get_welcome_message",
     help |-> "get_help_message",
     empty |-> "Please provide some ingredients! Type /help for instructions.",
     error |-> "Error: No ingredients provided. Type /help for instructions."]

\* the try block of telegram_webhook, from the parsed message on
TelegramDispatch(parsed, done) ==
    IF parsed = NoRecord
    THEN Outcome(JsonResponse("ignored"), parsed, done, <<>>, <<>>)
    ELSE IF parsed.type \in DOMAIN TelegramReply
    THEN Outcome(JsonResponse("success"), parsed, done \o <<"send">>,
                 <<[chat_id |-> parsed.chat_id, text |-> TelegramReply[parsed.type]]>>,
                 <<>>)
    ELSE Outcome(JsonResponse("processing"), parsed, done \o <<"add_task">>, <<>>,
                 <<[func |-> "process_recipe_request",
                    chat_id |-> parsed.chat_id,
                    recipe_request |->
                        [ingredients |-> parsed.ingredients,
                         cuisine |-> parsed.cuisine,
                         dietary_restrictions |-> parsed.dietary_restrictions,
                         cooking_time |-> parsed.cooking_time]]>>)

\* POST /webhook/telegram
telegram_webhook(req) ==
    IF ~Truthy(TELEGRAM_BOT_TOKEN)
    THEN Outcome(HTTPException(501), NoRecord, <<>>, <<>>, <<>>)
    ELSE IF ~verify_telegram_webhook(req)
    THEN Outcome(HTTPException(401), NoRecord, <<"verify_failed">>, <<>>, <<>>)
    ELSE IF ~IsJson(req.body)
    \* request.json() raises inside the try block: except Exception
    THEN Outcome(HTTPException(500), NoRecord, <<"verify_ok", "json">>, <<>>, <<>>)
    ELSE TelegramDispatch(parse_telegram_message(req.body.data),
                          <<"verify_ok", "json", "parse">>)

-----------------------------------------------------------------------------
(* The deferred jobs.  A job is computed from its arguments, the database *)
(* and what the backend it calls answers.                                  *)

\* a canned message, named by the function that returns it
Canned(name) == <<name>>

\* what the job did: the messages sent, the backend calls made, the database
\* it leaves, whether the backend failed, and how the coroutine ended
JobEffect(sends, backend_calls, db, failed, result) ==
    [sends |-> sends, calls |-> backend_calls, store |-> db,
     failed |-> failed, result |-> result]

\* RecipeService.generate_recipe; answer is what generate_content gives
generate_recipe(recipe_request, answer, db) ==
    IF answer.kind = "error"
    \* the exception of generate_content, re-raised
    THEN [raised |-> TRUE, error |-> "Exception", recipe |-> NoRecord, store |-> db]
    ELSE IF answer.kind = "empty" \/ answer.text = <<>>
    \* ValueError("Empty response from Gemini API"), re-raised
    THEN [raised |-> TRUE, error |-> "ValueError", recipe |-> NoRecord, store |-> db]
    ELSE LET parsed == parse_recipe_from_llm(answer.text)
             recipe_data == parsed.recipe
             recipe_id == <<"recipe_">> \o IntToText(Len(db.recipes) + 1)
             complete_recipe ==
                 [recipe_id |-> recipe_id,
                  title |-> recipe_data.title,
                  ingredients |-> recipe_data.ingredients,
                  instructions |-> recipe_data.instructions,
                  cooking_time |-> recipe_data.cooking_time,
                  difficulty |-> recipe_data.difficulty]
         IN  IF parsed.raised
             \* ValueError("Failed to parse recipe from LLM response"), re-raised
             THEN [raised |-> TRUE, error |-> "ValueError", recipe |-> NoRecord,
                   store |-> db]
             ELSE [raised |-> FALSE, error |-> "", recipe |-> complete_recipe,
                   store |-> [db EXCEPT !.recipes = Append(@, recipe_id)]]

HasUser(db, phone_number) == \E u \in db.users : u.phone_number = phone_number

\* DatabaseManager.get_user; lookup "error" is an exception inside its try
\* block, answered with the empty dict like a missing row
get_user(db, phone_number, lookup) ==
    IF lookup = "error" \/ ~HasUser(db, phone_number)
    THEN NoRecord
    ELSE CHOOSE u \in db.users : u.phone_number = phone_number

\* DatabaseManager.save_user: INSERT OR REPLACE on the unique phone_number;
\* save "error" is an exception inside its try block
save_user(db, user_data, save) ==
    IF save = "error"
    THEN db
    ELSE [db EXCEPT
             !.users = {u \in @ : u.phone_number # user_data.phone_number}
                       \cup {[phone_number |-> user_data.phone_number,
                              name |-> user_data.name,
                              is_premium |-> user_data.is_premium,
                              premium_expiry |->
                                  IF "premium_expiry" \in DOMAIN user_data
                                  THEN user_data.premium_expiry ELSE None]}]

\* the "save user if not exists" lines of process_recipe_request
SaveUserIfMissing(from_number, lookup, save, db) ==
    IF get_user(db, from_number, lookup) = NoRecord
    THEN save_user(db, [phone_number |-> from_number, name |-> None,
                        is_premium |-> FALSE], save)
    ELSE db

\* process_recipe_request of the WhatsApp module without its try/except
process_recipe_request_NoExcept(from_number, recipe_data, answer, lookup, save, db) ==
    LET processing == TextMessage(from_number, Canned("get_processing_message"))
        generated == generate_recipe(recipe_data, answer, db)
    IN  IF generated.raised
        THEN JobEffect(<<processing>>, <<"generate_recipe">>, db, TRUE, "raised")
        ELSE JobEffect(
                 <<processing,
                   TextMessage(from_number, format_recipe_for_whatsapp(generated.recipe))>>,
                 <<"generate_recipe">>,
                 SaveUserIfMissing(from_number, lookup, save, generated.store),
                 FALSE, "returned")

\* process_recipe_request of the WhatsApp module
process_recipe_request(from_number, recipe_data, answer, lookup, save, db) ==
    LET processing == TextMessage(from_number, Canned("get_processing_message"))
        generated == generate_recipe(recipe_data, answer, db)
    IN  IF generated.raised
        \* except Exception
        THEN JobEffect(
                 <<processing, TextMessage(from_number, Canned("get_error_message"))>>,
                 <<"generate_recipe">>, db, TRUE, "returned")
        ELSE JobEffect(
                 <<processing,
                   TextMessage(from_number, format_recipe_for_whatsapp(generated.recipe))>>,
                 <<"generate_recipe">>,
                 SaveUserIfMissing(from_number, lookup, save, generated.store),
                 FALSE, "returned")

TelegramMessage(chat_id, text) == [chat_id |-> chat_id, text |-> text]

TelegramRecipeError ==
    <<"Sorry, I encountered an error generating your recipe. Please try again with different ingredients or format.">>

\* process_recipe_request of the Telegram module
process_recipe_request_telegram(chat_id, recipe_data, answer, db) ==
    LET typing == TelegramMessage(chat_id, <<"[keyboard]">>)
        generated == generate_recipe(recipe_data, answer, db)
    IN  IF generated.raised
        \* except Exception
        THEN JobEffect(<<typing, TelegramMessage(chat_id, TelegramRecipeError)>>,
                       <<"generate_recipe">>, db, TRUE, "returned")
        ELSE JobEffect(
                 <<typing,
                   TelegramMessage(chat_id, format_recipe_for_telegram(generated.recipe))>>,
                 <<"generate_recipe">>, generated.store, FALSE, "returned")

\* PaymentService.create_upi_payment_link; order is what Razorpay answers
create_upi_payment_link(customer_phone, order, db) ==
    IF order # "created"
    \* Exception("Payment creation failed: ...")
    THEN [raised |-> TRUE, payment_id |-> None, store |-> db]
    ELSE LET payment_id == <<"order_">> \o IntToText(Len(db.payments) + 1)
         IN  [raised |-> FALSE, payment_id |-> payment_id,
              store |-> [db EXCEPT !.payments =
                             Append(@, [payment_id |-> payment_id,
                                        customer_phone |-> customer_phone,
                                        status |-> "pending"])]]

\* process_payment_request; qr is how save_qrcode_image ends
process_payment_request(from_number, order, qr, db) ==
    LET processing == TextMessage(from_number, Canned("get_payment_processing_message"))
        failed_message == TextMessage(from_number, Canned("get_payment_failed_message"))
        payment == create_upi_payment_link(from_number, order, db)
    IN  IF payment.raised
        \* except Exception
        THEN JobEffect(<<processing, failed_message>>,
                       <<"create_upi_payment_link">>, db, TRUE, "returned")
        \* the job's own save_payment repeats a payment_id that is UNIQUE: the
        \* insert fails and save_payment returns False
        ELSE LET instructions ==
                     TextMessage(from_number,
                                 <<"get_payment_instructions_message ">>
                                     \o payment.payment_id)
                 scan == TextMessage(from_number,
                             <<"Scan this QR code with any UPI app to complete your payment:">>)
                 \* save_qrcode_image writes qrcodes/qrcode.jpg, and
                 \* upload_qrcode_image reads the file back
                 written == [payment.store EXCEPT !.qrcode_jpg = payment.payment_id]
             IN  IF qr = "saved"
                 THEN JobEffect(
                          <<processing, instructions, scan,
                            TextMessage(from_number, <<"[image] ">> \o written.qrcode_jpg)>>,
                          <<"create_upi_payment_link">>, written, FALSE, "returned")
                 \* save_qrcode_image raises: except Exception
                 ELSE JobEffect(<<processing, instructions, scan, failed_message>>,
                                <<"create_upi_payment_link">>, payment.store, TRUE,
                                "returned")

\* DatabaseManager.update_payment_status: UPDATE ... WHERE payment_id = ?
update_payment_status(db, payment_id, status) ==
    [db EXCEPT !.payments =
        [i \in 1..Len(@) |-> IF @[i].payment_id = payment_id
                             THEN [@[i] EXCEPT !.status = status]
                             ELSE @[i]]]

\* PaymentService.verify_payment; fetched is the status of the payment the
\* provider returns, or "error" when the fetch raises
verify_payment(payment_id, fetched, db) ==
    IF fetched = "error"
    \* Exception("Payment verification failed: ...")
    THEN [raised |-> TRUE, status |-> "", store |-> db]
    ELSE [raised |-> FALSE, status |-> fetched,
          store |-> update_payment_status(db, payment_id, fetched)]

\* generate_recipe of routes/recipe_routes.py; a body that RecipeRequest does
\* not validate is answered by the framework before the handler runs
generate_recipe_route(req, answer, db) ==
    IF ~req.has_ingredients
    THEN [response |-> HTTPException(422), calls |-> <<>>, store |-> db]
    ELSE LET request_data ==
                 [ingredients |-> MapSeq(sanitize_input, req.ingredients),
                  cuisine |-> IF Truthy(req.cuisine)
                              THEN sanitize_input(req.cuisine) ELSE None,
                  dietary_restrictions |-> <<>>,
                  cooking_time |-> <<>>]
             generated == generate_recipe(request_data, answer, db)
         IN  [response |->
                  IF ~generated.raised THEN JsonResponse("recipe")
                  \* except ValueError
                  ELSE IF generated.error = "ValueError" THEN HTTPException(400)
                  \* except Exception
                  ELSE HTTPException(500),
              calls |-> <<"generate_recipe">>,
              store |-> generated.store]

-----------------------------------------------------------------------------
(* Inputs of the handlers *)

\* the end-to-end scenario of the specification
ChickenRiceBody ==
    <<"c", "h", "i", "c", "k", "e", "n", ",", " ", "r", "i", "c", "e", " ",
      "|", " ", "I", "t", "a", "l", "i", "a", "n", " ", "|", " ", "v", "e",
      "g", "e", "t", "a", "r", "i", "a", "n", " ", "|", " ", "4", "5">>

\* keywords of three sets
PayPremiumThanksBody ==
    <<"I", " ", "w", "a", "n", "t", " ", "t", "o", " ", "p", "a", "y", " ",
      "f", "o", "r", " ", "p", "r", "e", "m", "i", "u", "m", ",", " ", "t",
      "h", "a", "n", "k", "s">>

\* a request no keyword is contained in
EggsTomatoBody ==
    <<"e", "g", "g", "s", ",", " ", "t", "o", "m", "a", "t", "o", " ", "|",
      " ", "T", "h", "a", "i", " ", "|", " ", "v", "e", "g", "a", "n", " ",
      "|", " ", "3", "0", "m", "i", "n">>

\* thank_you and goodbye keywords
ThanksByeBody ==
    <<"T", "h", "a", "n", "k", "s", ",", " ", "b", "y", "e">>

\* start and help keywords
StartHelpBody ==
    <<"h", "e", "l", "p", " ", "m", "e", " ", "s", "t", "a", "r", "t">>

\* help and more_options keywords
MoreSupportBody ==
    <<"m", "o", "r", "e", " ", "s", "u", "p", "p", "o", "r", "t">>

\* a payment_status phrase
PaymentStatusBody ==
    <<"p", "a", "y", "m", "e", "n", "t", " ", "s", "t", "a", "t", "u", "s">>

\* a capabilities keyword
FeaturesBody ==
    <<"f", "e", "a", "t", "u", "r", "e", "s">>

\* no ingredient between the commas
CommasBody ==
    <<" ", ",", " ", ",", " ">>

\* only whitespace
BlankBody ==
    <<" ", " ">>

\* senders
Alice == <<"1", "5", "5", "5">>

\* environment values
AccessToken == <<"E", "A", "A", "G">>
AppSecret == <<"s", "3", "c">>
OtherSecret == <<"x", "9">>
BotToken == <<"7", ":", "A">>
WebhookSecret == <<"w", "h">>

TextBodies ==
    {ChickenRiceBody, PayPremiumThanksBody, EggsTomatoBody, ThanksByeBody,
     StartHelpBody, MoreSupportBody, PaymentStatusBody, FeaturesBody,
     CommasBody, BlankBody}

TextMessageFrom(from, body) ==
    [type |-> "text", from |-> from, body |-> body,
     interactive_type |-> "", button_reply_id |-> None, list_reply_id |-> None]

OtherMessages ==
    {[type |-> "interactive", from |-> Alice, body |-> <<>>,
      interactive_type |-> "button_reply", button_reply_id |-> <<"b", "1">>,
      list_reply_id |-> None],
     [type |-> "image", from |-> Alice, body |-> <<>>,
      interactive_type |-> "", button_reply_id |-> None, list_reply_id |-> None],
     \* a message without sender
     TextMessageFrom(None, EggsTomatoBody)}

\* {"entry": [{"changes": [{"value": {"messages": messages}}]}]}
Payload(messages) ==
    [entry |-> <<[changes |-> <<[value |-> [messages |-> messages]]>>]>>]

WhatsappPayloads ==
    {Payload(<<TextMessageFrom(Alice, body)>>) : body \in TextBodies}
    \cup {Payload(<<m>>) : m \in OtherMessages}
    \* a delivery-status callback, and no entry at all
    \cup {Payload(<<>>), [entry |-> <<>>]}

\* the bytes of a request body: JSON text of a document, or not JSON
JsonBody(data) == [json |-> TRUE, data |-> data]
NotJsonBody == [json |-> FALSE, data |-> NoRecord]

WhatsappBodies == {JsonBody(p) : p \in WhatsappPayloads} \cup {NotJsonBody}

\* X-Hub-Signature-256 of a request with this body: absent, signed with the
\* app secret, or the signature of another body
SignaturesFor(body) ==
    {NoRecord,
     SignatureHeader("sha256=", hmac_sha256_hexdigest(AppSecret, body)),
     SignatureHeader("sha256=", hmac_sha256_hexdigest(AppSecret, JsonBody(Payload(<<>>))))}

WhatsappPosts ==
    UNION {{[type |-> "POST /webhook/whatsapp",
             headers |-> [X_Hub_Signature_256 |-> h],
             body |-> b] : h \in SignaturesFor(b)} : b \in WhatsappBodies}

Subscribe == <<"s", "u", "b", "s", "c", "r", "i", "b", "e">>

WhatsappGets ==
    {[type |-> "GET /webhook/whatsapp",
      query_params |-> [hub_mode |-> m, hub_verify_token |-> t,
                        hub_challenge |-> <<"4", "2">>]] :
        m \in {None, Subscribe, <<"u", "n", "s", "u", "b">>},
        t \in {None, <<>>, AccessToken, BotToken}}

\* commands and texts of Telegram updates
RecipeEggsText ==
    <<"/", "r", "e", "c", "i", "p", "e", " ", "e", "g", "g", "s", " ", "|",
      " ", "|", " ", "|", " ", "2", "0">>

TelegramUpdates ==
    {[message |-> [text |-> t, chat |-> [id |-> 7]]] :
        t \in {RecipeEggsText, ChickenRiceBody, StartCommand, HelpCommand,
               RecipeCommand, CommasBody}}
    \cup {[message |-> NoRecord],
          [message |-> [text |-> None, chat |-> [id |-> 7]]],
          [message |-> [text |-> ChickenRiceBody, chat |-> NoRecord]]}

TelegramPosts ==
    {[type |-> "POST /webhook/telegram",
      headers |-> [X_Telegram_Bot_Api_Secret_Token |-> h],
      body |-> b] :
        h \in {None, WebhookSecret, OtherSecret},
        b \in {JsonBody(u) : u \in TelegramUpdates} \cup {NotJsonBody}}

-----------------------------------------------------------------------------
(* The server: one action per endpoint *)

\* the tables _init_db creates, without rows
EmptyStore ==
    [users |-> {}, recipes |-> <<>>, payments |-> <<>>, qrcode_jpg |-> None]

\* no credentials in the environment
Unconfigured ==
    /\ WHATSAPP_ACCESS_TOKEN = None /\ WHATSAPP_APP_SECRET = <<>>
    /\ TELEGRAM_BOT_TOKEN = None /\ TELEGRAM_WEBHOOK_SECRET = <<>>

\* no request handled yet
HandlersIdle ==
    /\ request = NoRecord /\ response = NoRecord /\ parsed_message = NoRecord
    /\ ops = <<>> /\ outbox = <<>> /\ background_tasks = <<>> /\ handled = 0
    /\ store = EmptyStore /\ calls = <<>> /\ job = NoRecord

webhookVars == <<WHATSAPP_ACCESS_TOKEN, WHATSAPP_APP_SECRET,
                 TELEGRAM_BOT_TOKEN, TELEGRAM_WEBHOOK_SECRET,
                 request, response, parsed_message, ops,
                 outbox, background_tasks, handled,
                 store, calls, job>>

HarnessIdle == arg = None /\ ret = None /\ ret2 = None /\ phase = "unused"

Init ==
    /\ WHATSAPP_ACCESS_TOKEN \in {None, <<>>, AccessToken}
    /\ WHATSAPP_APP_SECRET \in {<<>>, AppSecret}
    /\ TELEGRAM_BOT_TOKEN \in {None, BotToken}
    /\ TELEGRAM_WEBHOOK_SECRET \in {<<>>, WebhookSecret}
    /\ HandlersIdle
    /\ HarnessIdle

\* the framework runs the handler and keeps what it sent and scheduled
Handle(req, out) ==
    /\ handled < MaxRequests
    /\ handled' = handled + 1
    /\ request' = req
    /\ response' = out.response
    /\ parsed_message' = out.parsed_message
    /\ ops' = out.ops
    /\ outbox' = outbox \o out.sends
    /\ background_tasks' = background_tasks \o out.tasks
    \* the handlers touch neither the database nor the backends
    /\ UNCHANGED <<WHATSAPP_ACCESS_TOKEN, WHATSAPP_APP_SECRET,
                   TELEGRAM_BOT_TOKEN, TELEGRAM_WEBHOOK_SECRET,
                   store, calls, job,
                   arg, ret, ret2, phase>>

GetWhatsapp == \E req \in WhatsappGets : Handle(req, verify_whatsapp_webhook_endpoint(req))

PostWhatsapp == \E req \in WhatsappPosts : Handle(req, whatsapp_webhook(req))

PostTelegram == \E req \in TelegramPosts : Handle(req, telegram_webhook(req))

Next == GetWhatsapp \/ PostWhatsapp \/ PostTelegram

Spec == Init /\ [][Next]_vars

-----------------------------------------------------------------------------
(* Pure-function harness: sanitize_input *)

TailAlphabet == {"a", " ", "<", "\\"}

Tails == UNION {[1..n -> TailAlphabet] : n \in 0..MaxTail}

\* lengths of the run of "a" put before the tail: none, and around the limit
PadLengths == {0, SanitizeLimit - 2, SanitizeLimit - 1, SanitizeLimit}

SanitizeInputs == {None} \cup {Repeat("a", n) \o t : n \in PadLengths, t \in Tails}

InitSanitize ==
    /\ Unconfigured
    /\ HandlersIdle
    /\ arg \in SanitizeInputs
    /\ ret = None /\ ret2 = None
    /\ phase = "start"

\* y = sanitize_input(x)
SanitizeOnce ==
    /\ phase = "start"
    /\ ret' = sanitize_input(arg)
    /\ phase' = "once"
    /\ UNCHANGED <<arg, ret2, webhookVars>>

\* sanitize_input(y)
SanitizeTwice ==
    /\ phase = "once"
    /\ ret2' = sanitize_input(ret)
    /\ phase' = "twice"
    /\ UNCHANGED <<arg, ret, webhookVars>>

NextSanitize == SanitizeOnce \/ SanitizeTwice

SpecSanitize == InitSanitize /\ [][NextSanitize]_vars

-----------------------------------------------------------------------------
(* Pure-function harness: verify_whatsapp_webhook *)

SignedBodies ==
    {JsonBody(Payload(<<>>)),
     JsonBody(Payload(<<TextMessageFrom(Alice, EggsTomatoBody)>>)),
     NotJsonBody}

\* header values: absent, or a scheme prefix followed by the digest of some
\* body under some secret
VerifyHeaders ==
    {NoRecord}
    \cup {SignatureHeader(scheme, hmac_sha256_hexdigest(key, body)) :
            scheme \in {"sha256=", "sha1=", ""},
            key \in {AppSecret, OtherSecret},
            body \in SignedBodies}

InitVerify ==
    /\ WHATSAPP_ACCESS_TOKEN = AccessToken
    /\ WHATSAPP_APP_SECRET \in {<<>>, AppSecret, OtherSecret}
    /\ TELEGRAM_BOT_TOKEN = None
    /\ TELEGRAM_WEBHOOK_SECRET = <<>>
    /\ HandlersIdle
    /\ arg \in {[request |-> [headers |-> [X_Hub_Signature_256 |-> h]], body |-> b] :
                    h \in VerifyHeaders, b \in SignedBodies}
    /\ ret = FALSE
    /\ ret2 = None
    /\ phase = "start"

\* match = verify_whatsapp_webhook(request, body)
VerifySignature ==
    /\ phase = "start"
    /\ ret' = verify_whatsapp_webhook(arg.request, arg.body)
    /\ phase' = "verified"
    /\ UNCHANGED <<arg, ret2, webhookVars>>

NextVerify == VerifySignature

SpecVerify == InitVerify /\ [][NextVerify]_vars

-----------------------------------------------------------------------------
(* Pure-function harness: parse_whatsapp_message on one text message *)

SetOf(words) == {words[k] : k \in 1..Len(words)}

KeywordPhrases ==
    SetOf(PaymentRequestWords) \cup SetOf(PaymentStatusWords)
    \cup SetOf(PaymentConfirmationWords) \cup SetOf(AccountInfoWords)
    \cup SetOf(StartWords) \cup SetOf(HelpWords) \cup SetOf(MoreWords)
    \cup SetOf(ThankYouWords) \cup SetOf(GoodbyeWords)
    \cup SetOf(HowAreYouWords) \cup SetOf(CapabilitiesWords)

\* the bodies of the handlers' inputs, every keyword phrase alone and every
\* two keyword phrases in one body
ClassifyInputs ==
    TextBodies
    \cup KeywordPhrases
    \cup {w1 \o <<" ">> \o w2 : w1 \in KeywordPhrases, w2 \in KeywordPhrases}

InitClassify ==
    /\ Unconfigured
    /\ HandlersIdle
    /\ arg \in ClassifyInputs
    /\ ret = NoRecord
    /\ ret2 = None
    /\ phase = "start"

\* parsed_message = parse_whatsapp_message(webhook_data)
Classify ==
    /\ phase = "start"
    /\ ret' = parse_whatsapp_message(Payload(<<TextMessageFrom(Alice, arg)>>))
    /\ phase' = "parsed"
    /\ UNCHANGED <<arg, ret2, webhookVars>>

NextClassify == Classify

SpecClassify == InitClassify /\ [][NextClassify]_vars

-----------------------------------------------------------------------------
(* Harness of the tokenizer: one text body sent to either webhook *)

\* first segments: tokens, blanks between them, tokens of harmful characters
IngredientSegments ==
    {<<"a", ",", " ", "b", " ", ",", " ", ",", " ", "c">>,
     <<"<", ">">>,
     <<"e", "g", "g", "s", ",", " ", "<", ">">>,
     <<" ", ",", " ", ",", " ">>,
     <<>>,
     <<"x", ",", "x">>}

\* second segments
CuisineSegments ==
    {<<" ", "T", "h", "a", "i", " ">>,
     <<>>}

\* third segments
RestrictionSegments ==
    {<<"r", "1", ",", "r", "2">>,
     <<"r", "1", ",", " ", ",", "r", "2">>,
     <<" ">>,
     <<"<", ">">>}

\* fourth segments
TimeSegments ==
    {<<" ", "3", "0", "m", "i", "n">>,
     <<"0">>,
     <<"0", "0", "0">>,
     <<"-", "5">>,
     <<"2", "0">>,
     <<"s", "o", "o", "n">>,
     <<" ">>,
     <<"x", "7", "y", "8">>}

\* fifth segments
ExtraSegments ==
    {<<"9", "9">>}

Bar == <<"|">>

TokenizeBodies ==
    IngredientSegments
    \cup {i \o Bar \o c : i \in IngredientSegments, c \in CuisineSegments}
    \cup {i \o Bar \o c \o Bar \o r :
            i \in IngredientSegments, c \in CuisineSegments, r \in RestrictionSegments}
    \cup {i \o Bar \o c \o Bar \o r \o Bar \o t :
            i \in IngredientSegments, c \in CuisineSegments,
            r \in RestrictionSegments, t \in TimeSegments}
    \cup {i \o Bar \o c \o Bar \o r \o Bar \o t \o Bar \o x :
            i \in IngredientSegments, c \in CuisineSegments,
            r \in RestrictionSegments, t \in TimeSegments, x \in ExtraSegments}

WhatsappTextPost(body) ==
    [type |-> "POST /webhook/whatsapp",
     headers |-> [X_Hub_Signature_256 |-> NoRecord],
     body |-> JsonBody(Payload(<<TextMessageFrom(Alice, body)>>))]

TelegramTextPost(text) ==
    [type |-> "POST /webhook/telegram",
     headers |-> [X_Telegram_Bot_Api_Secret_Token |-> None],
     body |-> JsonBody([message |-> [text |-> text, chat |-> [id |-> 7]]])]

\* both bots configured, no webhook secret set; arg is the text a user sends
InitTokenize ==
    /\ WHATSAPP_ACCESS_TOKEN = AccessToken /\ WHATSAPP_APP_SECRET = <<>>
    /\ TELEGRAM_BOT_TOKEN = BotToken /\ TELEGRAM_WEBHOOK_SECRET = <<>>
    /\ HandlersIdle
    /\ arg \in TokenizeBodies
    /\ ret = None /\ ret2 = None
    /\ phase = "unused"

PostWhatsappText ==
    /\ handled = 0
    /\ Handle(WhatsappTextPost(arg), whatsapp_webhook(WhatsappTextPost(arg)))

PostTelegramText ==
    /\ handled = 0
    /\ Handle(TelegramTextPost(arg), telegram_webhook(TelegramTextPost(arg)))

NextTokenize == PostWhatsappText \/ PostTelegramText

SpecTokenize == InitTokenize /\ [][NextTokenize]_vars

-----------------------------------------------------------------------------
(* Harness of the message kinds: one WhatsApp message sent to the webhook *)

Bob == <<"1", "6", "6", "6">>

\* message.interactive.type; "" when the message has no such key
InteractiveTypes == {"button_reply", "list_reply", "nfm_reply", ""}

\* the id of a button_reply or list_reply object; None when it has none
ReplyIds == {<<"b", "1">>, <<"o", "p", "t", "2">>, None}

MessageKinds ==
    {[type |-> "interactive", from |-> f, body |-> <<>>, interactive_type |-> t,
      button_reply_id |-> b, list_reply_id |-> l] :
        f \in {Alice, Bob}, t \in InteractiveTypes, b \in ReplyIds, l \in ReplyIds}
    \cup {[type |-> t, from |-> f, body |-> <<>>, interactive_type |-> "",
           button_reply_id |-> None, list_reply_id |-> None] :
            t \in {"image", "audio", "location", "sticker"}, f \in {Alice, Bob}}
    \cup {TextMessageFrom(f, b) : f \in {Alice, Bob}, b \in TextBodies}

WhatsappMessagePost(message) ==
    [type |-> "POST /webhook/whatsapp",
     headers |-> [X_Hub_Signature_256 |-> NoRecord],
     body |-> JsonBody(Payload(<<message>>))]

\* the bot configured, no app secret set; arg is the message a user sends
InitMessage ==
    /\ WHATSAPP_ACCESS_TOKEN = AccessToken /\ WHATSAPP_APP_SECRET = <<>>
    /\ TELEGRAM_BOT_TOKEN = BotToken /\ TELEGRAM_WEBHOOK_SECRET = <<>>
    /\ HandlersIdle
    /\ arg \in MessageKinds
    /\ ret = None /\ ret2 = None
    /\ phase = "unused"

PostWhatsappMessage ==
    /\ handled = 0
    /\ Handle(WhatsappMessagePost(arg), whatsapp_webhook(WhatsappMessagePost(arg)))

NextMessage == PostWhatsappMessage

SpecMessage == InitMessage /\ [][NextMessage]_vars

-----------------------------------------------------------------------------
(* Harness of the WhatsApp router: one parsed intent put to the dispatch *)

ImmediateIntents ==
    {"start", "help", "empty", "no_ingredients", "unsupported", "more_options",
     "thank_you", "goodbye", "how_are_you", "capabilities", "payment_confirmation"}

DeferredIntents == {"payment_request", "payment_status", "account_info"}

Thai == <<"T", "h", "a", "i">>
Eggs == <<"e", "g", "g", "s">>
Rice == <<"r", "i", "c", "e">>
Vegan == <<"v", "e", "g", "a", "n">>

\* the records parse_whatsapp_message returns
Intents ==
    {[type |-> t, from_number |-> f] :
        t \in ImmediateIntents \cup DeferredIntents, f \in {Alice, Bob}}
    \cup {[type |-> "recipe_request", from_number |-> f, ingredients |-> i,
           cuisine |-> c, dietary_restrictions |-> r, cooking_time |-> t,
           original_text |-> <<>>] :
            f \in {Alice, Bob}, i \in {<<Eggs>>, <<Eggs, Rice>>}, c \in {None, Thai},
            r \in {<<>>, <<Vegan>>}, t \in {<<>>, <<30>>}}

\* a WhatsApp POST that passed the signature check; its body is not looked at
ParsedRequest ==
    [type |-> "POST /webhook/whatsapp",
     headers |-> [X_Hub_Signature_256 |-> NoRecord],
     body |-> JsonBody(NoRecord)]

\* the bot configured; arg is what parse_whatsapp_message returned
InitRoute ==
    /\ WHATSAPP_ACCESS_TOKEN = AccessToken /\ WHATSAPP_APP_SECRET = <<>>
    /\ TELEGRAM_BOT_TOKEN = BotToken /\ TELEGRAM_WEBHOOK_SECRET = <<>>
    /\ HandlersIdle
    /\ arg \in Intents
    /\ ret = None /\ ret2 = None
    /\ phase = "unused"

\* whatsapp_webhook from "Handle different message types" on
RouteIntent ==
    /\ handled = 0
    /\ Handle(ParsedRequest,
              WhatsappDispatch(arg, <<"body", "json", "verify_ok", "parse">>))

NextRoute == RouteIntent

SpecRoute == InitRoute /\ [][NextRoute]_vars

-----------------------------------------------------------------------------
(* Pure-function harness: the recipe formatters *)

Soup == <<"S", "o", "u", "p">>
Boil == <<"B", "o", "i", "l">>
Serve == <<"S", "e", "r", "v", "e">>

\* recipes as the recipe backend returns them, and with the title missing,
\* null or blank
Recipes ==
    {[recipe_id |-> <<"r", "1">>, title |-> t, ingredients |-> i,
      instructions |-> s, cooking_time |-> 20,
      difficulty |-> <<"E", "a", "s", "y">>] :
        t \in {KeyAbsent, None, <<>>, <<" ">>, <<" ", "\t">>, Soup},
        i \in {<<>>, <<Eggs>>, <<Eggs, Rice>>, <<Rice, Eggs, Rice>>},
        s \in {<<>>, <<Boil>>, <<Boil, Serve>>}}

InitFormat ==
    /\ Unconfigured
    /\ HandlersIdle
    /\ arg \in Recipes
    /\ ret = None /\ ret2 = None
    /\ phase = "start"

\* message = format_recipe_for_whatsapp(recipe)
FormatWhatsapp ==
    /\ ret = None
    /\ ret' = format_recipe_for_whatsapp(arg)
    /\ phase' = "formatted"
    /\ UNCHANGED <<arg, ret2, webhookVars>>

\* response_message = format_recipe_for_telegram(recipe)
FormatTelegram ==
    /\ ret2 = None
    /\ ret2' = format_recipe_for_telegram(arg)
    /\ phase' = "formatted"
    /\ UNCHANGED <<arg, ret, webhookVars>>

NextFormat == FormatWhatsapp \/ FormatTelegram

SpecFormat == InitFormat /\ [][NextFormat]_vars

-----------------------------------------------------------------------------
(* The webhooks with their deferred jobs *)

PayBody == <<"p", "a", "y">>

\* the webhooks that schedule a recipe or a payment job
JobPosts ==
    {[post |-> WhatsappTextPost(EggsTomatoBody), platform |-> "whatsapp"],
     [post |-> WhatsappTextPost(PayBody), platform |-> "whatsapp"],
     [post |-> TelegramTextPost(RecipeEggsText), platform |-> "telegram"]}

\* a response text in the format the prompt asks for
RecipeText(title) ==
    Join(<<<<"T", "i", "t", "l", "e", ":", " ">> \o title,
           <<"I", "n", "g", "r", "e", "d", "i", "e", "n", "t", "s", ":">>,
           <<"-", " ">> \o Eggs,
           <<"I", "n", "s", "t", "r", "u", "c", "t", "i", "o", "n", "s", ":">>,
           <<"1", ".", " ">> \o Boil,
           <<"C", "o", "o", "k", "i", "n", "g", " ", "T", "i", "m", "e", ":", " ", "2", "0", " ", "m", "i", "n", "u", "t", "e", "s">>,
           <<"D", "i", "f", "f", "i", "c", "u", "l", "t", "y", ":", " ", "E", "a", "s", "y">>>>,
         NewLine)

\* what generate_content answers: a text in the format asked for, with and
\* without a title, an empty response, an exception
GeminiAnswers ==
    {[kind |-> "text", text |-> RecipeText(t)] : t \in {Soup, <<>>}}
    \cup {[kind |-> "empty", text |-> <<>>],
          [kind |-> "error", text |-> <<>>]}

\* how a database call ends: it completes, or an exception is caught inside
DbOutcomes == {"ok", "error"}

\* both bots configured, no webhook secret set, an empty database
InitJobs ==
    /\ WHATSAPP_ACCESS_TOKEN = AccessToken /\ WHATSAPP_APP_SECRET = <<>>
    /\ TELEGRAM_BOT_TOKEN = BotToken /\ TELEGRAM_WEBHOOK_SECRET = <<>>
    /\ HandlersIdle
    /\ HarnessIdle

PostJobWebhook ==
    \E p \in JobPosts :
        Handle(p.post, IF p.platform = "whatsapp"
                       THEN whatsapp_webhook(p.post) ELSE telegram_webhook(p.post))

\* the framework runs a task it was given; tasks of different requests run
\* in any order
RunTask(i, effect) ==
    /\ outbox' = outbox \o effect.sends
    /\ calls' = calls \o effect.calls
    /\ store' = effect.store
    /\ job' = [task |-> background_tasks[i], failed |-> effect.failed,
               result |-> effect.result]
    /\ background_tasks' = [k \in 1..(Len(background_tasks) - 1) |->
                               IF k < i THEN background_tasks[k]
                               ELSE background_tasks[k + 1]]
    /\ UNCHANGED <<WHATSAPP_ACCESS_TOKEN, WHATSAPP_APP_SECRET,
                   TELEGRAM_BOT_TOKEN, TELEGRAM_WEBHOOK_SECRET,
                   request, response, parsed_message, ops, handled,
                   arg, ret, ret2, phase>>

IsTelegramTask(task) == "chat_id" \in DOMAIN task

RunWhatsappRecipeJob ==
    \E i \in 1..Len(background_tasks), answer \in GeminiAnswers,
       lookup \in DbOutcomes, save \in DbOutcomes :
        /\ background_tasks[i].func = "process_recipe_request"
        /\ ~IsTelegramTask(background_tasks[i])
        /\ RunTask(i, process_recipe_request(background_tasks[i].from_number,
                                             background_tasks[i].recipe_request,
                                             answer, lookup, save, store))

RunTelegramRecipeJob ==
    \E i \in 1..Len(background_tasks), answer \in GeminiAnswers :
        /\ background_tasks[i].func = "process_recipe_request"
        /\ IsTelegramTask(background_tasks[i])
        /\ RunTask(i, process_recipe_request_telegram(background_tasks[i].chat_id,
                                                      background_tasks[i].recipe_request,
                                                      answer, store))

RunPaymentJob ==
    \E i \in 1..Len(background_tasks),
       order \in {"created", "error"}, qr \in {"saved", "error"} :
        /\ background_tasks[i].func = "process_payment_request"
        /\ RunTask(i, process_payment_request(background_tasks[i].from_number,
                                              order, qr, store))

NextJobs ==
    PostJobWebhook \/ RunWhatsappRecipeJob \/ RunTelegramRecipeJob \/ RunPaymentJob

SpecJobs == InitJobs /\ [][NextJobs]_vars

-----------------------------------------------------------------------------
(* Harness of the Telegram normalizer: one update sent to the webhook *)

\* how a Telegram text starts: no command, a command, in another case, after blanks
CommandPrefixes ==
    {<<>>,
     <<"/", "r", "e", "c", "i", "p", "e">>,
     <<"/", "r", "e", "c", "i", "p", "e", " ">>,
     <<"/", "R", "e", "c", "i", "p", "e", " ">>,
     <<"/", "s", "t", "a", "r", "t">>,
     <<"/", "s", "t", "a", "r", "t", " ">>,
     <<"/", "h", "e", "l", "p">>,
     <<"/", "h", "e", "l", "p", " ">>,
     <<" ", "/", "r", "e", "c", "i", "p", "e", " ", " ">>}

\* what follows
CommandRests ==
    {<<>>,
     <<"h", "e", "l", "l", "o">>,
     <<"p", "a", "y">>,
     <<"e", "g", "g", "s", ",", " ", "r", "i", "c", "e", " ", "|", " ", "T", "h", "a", "i">>,
     <<" ">>,
     <<"/", "s", "t", "a", "r", "t">>,
     <<"s", " ", "e", "g", "g", "s">>}

\* updates with a text, and without message, without text, without chat
TelegramUpdateKinds ==
    {[message |-> [text |-> p \o r, chat |-> [id |-> 7]]] :
        p \in CommandPrefixes, r \in CommandRests}
    \cup {[message |-> NoRecord],
          [message |-> [text |-> None, chat |-> [id |-> 7]]],
          [message |-> [text |-> Eggs, chat |-> NoRecord]]}

TelegramUpdatePost(update) ==
    [type |-> "POST /webhook/telegram",
     headers |-> [X_Telegram_Bot_Api_Secret_Token |-> None],
     body |-> JsonBody(update)]

\* the bot configured, no webhook secret set; arg is the update Telegram sends
InitTelegram ==
    /\ WHATSAPP_ACCESS_TOKEN = AccessToken /\ WHATSAPP_APP_SECRET = <<>>
    /\ TELEGRAM_BOT_TOKEN = BotToken /\ TELEGRAM_WEBHOOK_SECRET = <<>>
    /\ HandlersIdle
    /\ arg \in TelegramUpdateKinds
    /\ ret = None /\ ret2 = None
    /\ phase = "unused"

PostTelegramUpdate ==
    /\ handled = 0
    /\ Handle(TelegramUpdatePost(arg), telegram_webhook(TelegramUpdatePost(arg)))

NextTelegram == PostTelegramUpdate

SpecTelegram == InitTelegram /\ [][NextTelegram]_vars

-----------------------------------------------------------------------------
(* The payment service: creation, the payment job, verification *)

\* PaymentStatus
PaymentStatusValues == {"pending", "success", "failed", "cancelled"}

\* the status of a payment as Razorpay reports it
RazorpayStatuses == {"created", "authorized", "captured", "refunded", "failed"}

UnknownPayment == <<"o", "r", "d", "e", "r", "_", "x">>

PaymentIds(db) == {db.payments[i].payment_id : i \in 1..Len(db.payments)}

InitPayments ==
    /\ WHATSAPP_ACCESS_TOKEN = AccessToken /\ WHATSAPP_APP_SECRET = <<>>
    /\ TELEGRAM_BOT_TOKEN = BotToken /\ TELEGRAM_WEBHOOK_SECRET = <<>>
    /\ HandlersIdle
    /\ HarnessIdle

\* POST /payments/create
create_payment ==
    /\ Len(calls) < MaxPaymentCalls
    /\ \E order \in {"created", "error"} :
         LET payment == create_upi_payment_link(Alice, order, store)
         IN  /\ store' = payment.store
             /\ response' = IF payment.raised THEN HTTPException(400)
                            ELSE JsonResponse("created")
    /\ request' = [type |-> "POST /payments/create"]
    /\ calls' = Append(calls, "create_upi_payment_link")
    /\ UNCHANGED <<WHATSAPP_ACCESS_TOKEN, WHATSAPP_APP_SECRET,
                   TELEGRAM_BOT_TOKEN, TELEGRAM_WEBHOOK_SECRET,
                   parsed_message, ops, outbox, background_tasks, handled, job,
                   arg, ret, ret2, phase>>

\* process_payment_request(from_number), run by the framework
PaymentJob ==
    /\ Len(calls) < MaxPaymentCalls
    /\ \E order \in {"created", "error"}, qr \in {"saved", "error"} :
         LET effect == process_payment_request(Alice, order, qr, store)
         IN  /\ store' = effect.store
             /\ outbox' = outbox \o effect.sends
             /\ calls' = calls \o effect.calls
             /\ job' = [task |-> [func |-> "process_payment_request",
                                  from_number |-> Alice],
                        failed |-> effect.failed, result |-> effect.result]
    /\ UNCHANGED <<WHATSAPP_ACCESS_TOKEN, WHATSAPP_APP_SECRET,
                   TELEGRAM_BOT_TOKEN, TELEGRAM_WEBHOOK_SECRET,
                   request, response, parsed_message, ops, background_tasks,
                   handled, arg, ret, ret2, phase>>

\* GET /payments/status/{payment_id}
get_payment_status ==
    /\ Len(calls) < MaxPaymentCalls
    /\ \E payment_id \in PaymentIds(store) \cup {UnknownPayment},
          fetched \in RazorpayStatuses \cup {"error"} :
         LET verified == verify_payment(payment_id, fetched, store)
         IN  /\ store' = verified.store
             /\ response' = IF verified.raised THEN HTTPException(404)
                            ELSE JsonResponse(verified.status)
    /\ request' = [type |-> "GET /payments/status/{payment_id}"]
    /\ calls' = Append(calls, "verify_payment")
    /\ UNCHANGED <<WHATSAPP_ACCESS_TOKEN, WHATSAPP_APP_SECRET,
                   TELEGRAM_BOT_TOKEN, TELEGRAM_WEBHOOK_SECRET,
                   parsed_message, ops, outbox, background_tasks, handled, job,
                   arg, ret, ret2, phase>>

NextPayments == create_payment \/ PaymentJob \/ get_payment_status

SpecPayments == InitPayments /\ [][NextPayments]_vars

-----------------------------------------------------------------------------
(* The recipe API *)

\* bodies of POST /api/v1/recipes/generate: without ingredients, with none,
\* with one and with two
RecipePosts ==
    {[type |-> "POST /api/v1/recipes/generate", has_ingredients |-> h,
      ingredients |-> i, cuisine |-> c] :
        h \in BOOLEAN, i \in {<<>>, <<Eggs>>, <<Rice>>, <<Eggs, Rice>>},
        c \in {None, <<>>, Thai}}
    \ {[type |-> "POST /api/v1/recipes/generate", has_ingredients |-> FALSE,
        ingredients |-> i, cuisine |-> c] :
        i \in {<<Eggs>>, <<Rice>>, <<Eggs, Rice>>}, c \in {None, <<>>, Thai}}

InitApi ==
    /\ Unconfigured
    /\ HandlersIdle
    /\ HarnessIdle

PostGenerateRecipe ==
    /\ handled < MaxRequests
    /\ handled' = handled + 1
    /\ \E req \in RecipePosts, answer \in GeminiAnswers :
         LET out == generate_recipe_route(req, answer, store)
         IN  /\ request' = req
             /\ response' = out.response
             /\ calls' = calls \o out.calls
             /\ store' = out.store
    /\ UNCHANGED <<WHATSAPP_ACCESS_TOKEN, WHATSAPP_APP_SECRET,
                   TELEGRAM_BOT_TOKEN, TELEGRAM_WEBHOOK_SECRET,
                   parsed_message, ops, outbox, background_tasks, job,
                   arg, ret, ret2, phase>>

NextApi == PostGenerateRecipe

SpecApi == InitApi /\ [][NextApi]_vars

-----------------------------------------------------------------------------
(* Pure-function harness: parse_recipe_from_llm *)

InvalidFormat == <<"I", "n", "v", "a", "l", "i", "d", " ", "f", "o", "r", "m", "a", "t">>

\* lines a response text is made of
ResponseLines ==
    {InvalidFormat, <<>>,
     <<"T", "i", "t", "l", "e", ":", " ", "S", "o", "u", "p">>,
     <<"I", "n", "g", "r", "e", "d", "i", "e", "n", "t", "s", ":">>,
     <<"-", " ">> \o Eggs,
     <<"I", "n", "s", "t", "r", "u", "c", "t", "i", "o", "n", "s", ":">>,
     <<"1", ".", " ">> \o Boil,
     <<"C", "o", "o", "k", "i", "n", "g", " ", "T", "i", "m", "e", ":", " ", "2", "0", " ", "m", "i", "n", "u", "t", "e", "s">>,
     <<"C", "o", "o", "k", "i", "n", "g", " ", "T", "i", "m", "e", ":", " ", "s", "o", "o", "n">>}

\* the response texts of one line and of two
ResponseTexts ==
    ResponseLines \cup {a \o NewLine \o b : a, b \in ResponseLines}

InitParse ==
    /\ Unconfigured
    /\ HandlersIdle
    /\ arg \in ResponseTexts
    /\ ret = NoRecord /\ ret2 = NoRecord
    /\ phase = "start"

\* parse_recipe_from_llm(arg)
ParseResponse ==
    /\ phase = "start"
    /\ ret' = parse_recipe_from_llm(arg)
    /\ phase' = "parsed"
    /\ UNCHANGED <<webhookVars, arg, ret2>>

\* recipe_service.generate_recipe(...) while generate_content answers arg
GenerateFromResponse ==
    /\ phase = "parsed"
    /\ LET generated ==
               generate_recipe([ingredients |-> <<Eggs>>],
                               [kind |-> "text", text |-> arg], store)
       IN  /\ ret2' = [raised |-> generated.raised, recipe |-> generated.recipe]
           /\ store' = generated.store
    /\ calls' = Append(calls, "generate_recipe")
    /\ phase' = "generated"
    /\ UNCHANGED <<WHATSAPP_ACCESS_TOKEN, WHATSAPP_APP_SECRET,
                   TELEGRAM_BOT_TOKEN, TELEGRAM_WEBHOOK_SECRET,
                   request, response, parsed_message, ops, outbox,
                   background_tasks, handled, job, arg, ret>>

NextParse == ParseResponse \/ GenerateFromResponse

SpecParse == InitParse /\ [][NextParse]_vars

-----------------------------------------------------------------------------
(* Recipe jobs of the WhatsApp webhook that overlap *)

RecipePostFrom(from) ==
    [type |-> "POST /webhook/whatsapp",
     headers |-> [X_Hub_Signature_256 |-> NoRecord],
     body |-> JsonBody(Payload(<<TextMessageFrom(from, EggsTomatoBody)>>))]

PremiumExpiry == <<"2", "0", "2", "7", "-", "0", "1", "-", "0", "1">>

\* a user who paid
PremiumAlice ==
    [phone_number |-> Alice, name |-> None, is_premium |-> TRUE,
     premium_expiry |-> PremiumExpiry]

\* the bot configured, no webhook secret set, no job started; the database
\* empty or holding one premium user
InitOverlap ==
    /\ WHATSAPP_ACCESS_TOKEN = AccessToken /\ WHATSAPP_APP_SECRET = <<>>
    /\ TELEGRAM_BOT_TOKEN = BotToken /\ TELEGRAM_WEBHOOK_SECRET = <<>>
    /\ request = NoRecord /\ response = NoRecord /\ parsed_message = NoRecord
    /\ ops = <<>> /\ outbox = <<>> /\ background_tasks = <<>> /\ handled = 0
    /\ store \in {EmptyStore, [EmptyStore EXCEPT !.users = {PremiumAlice}]}
    /\ calls = <<>>
    /\ job = <<>>
    /\ HarnessIdle

PostRecipeWebhook ==
    \E from \in {Alice, Bob} :
        Handle(RecipePostFrom(from), whatsapp_webhook(RecipePostFrom(from)))

\* a job runs up to its await: the processing notice is sent
StartRecipeJob ==
    \E i \in 1..Len(background_tasks) :
        LET task == background_tasks[i]
            effect == process_recipe_request(task.from_number, task.recipe_request,
                                             [kind |-> "empty", text |-> <<>>],
                                             "ok", "ok", store)
        IN  /\ task.func = "process_recipe_request"
            /\ outbox' = Append(outbox, Head(effect.sends))
            /\ job' = Append(job, [task |-> task, pc |-> "generate_recipe",
                                   sends |-> <<Head(effect.sends)>>,
                                   failed |-> FALSE])
            /\ background_tasks' = [k \in 1..(Len(background_tasks) - 1) |->
                                       IF k < i THEN background_tasks[k]
                                       ELSE background_tasks[k + 1]]
            /\ UNCHANGED <<WHATSAPP_ACCESS_TOKEN, WHATSAPP_APP_SECRET,
                           TELEGRAM_BOT_TOKEN, TELEGRAM_WEBHOOK_SECRET,
                           request, response, parsed_message, ops, handled,
                           store, calls, arg, ret, ret2, phase>>

\* job k sends the messages rest and ends
EndRecipeJob(k, rest, effect) ==
    /\ outbox' = outbox \o rest
    /\ calls' = calls \o effect.calls
    /\ store' = effect.store
    /\ job' = [job EXCEPT ![k].pc = "done", ![k].sends = @ \o rest,
                          ![k].failed = effect.failed]
    /\ UNCHANGED <<WHATSAPP_ACCESS_TOKEN, WHATSAPP_APP_SECRET,
                   TELEGRAM_BOT_TOKEN, TELEGRAM_WEBHOOK_SECRET,
                   request, response, parsed_message, ops, background_tasks,
                   handled, arg, ret, ret2, phase>>

\* the rest of a job whose get_user lets its exception out to the except
\* block of the job
FinishRecipeJob_LookupRaises ==
    \E k \in 1..Len(job), answer \in GeminiAnswers,
       lookup \in DbOutcomes, save \in DbOutcomes :
        LET from_number == job[k].task.from_number
            effect == process_recipe_request(from_number, job[k].task.recipe_request,
                                             answer, lookup, save, store)
        IN  /\ job[k].pc = "generate_recipe"
            /\ EndRecipeJob(k,
                   IF ~effect.failed /\ lookup = "error"
                   THEN Tail(effect.sends)
                        \o <<TextMessage(from_number, Canned("get_error_message"))>>
                   ELSE Tail(effect.sends),
                   effect)

\* the rest of a job: the backend answers, the recipe or the error message
\* is sent, the user is looked up and saved
FinishRecipeJob ==
    \E k \in 1..Len(job), answer \in GeminiAnswers,
       lookup \in DbOutcomes, save \in DbOutcomes :
        LET effect == process_recipe_request(job[k].task.from_number,
                                             job[k].task.recipe_request,
                                             answer, lookup, save, store)
        IN  /\ job[k].pc = "generate_recipe"
            /\ EndRecipeJob(k, Tail(effect.sends), effect)

NextOverlap == PostRecipeWebhook \/ StartRecipeJob \/ FinishRecipeJob

SpecOverlap == InitOverlap /\ [][NextOverlap]_vars

-----------------------------------------------------------------------------
(* Payment jobs of the WhatsApp webhook that overlap: workers that share *)
(* the directory qrcodes                                                  *)

PayPostFrom(from) ==
    [type |-> "POST /webhook/whatsapp",
     headers |-> [X_Hub_Signature_256 |-> NoRecord],
     body |-> JsonBody(Payload(<<TextMessageFrom(from, PayBody)>>))]

InitQr ==
    /\ WHATSAPP_ACCESS_TOKEN = AccessToken /\ WHATSAPP_APP_SECRET = <<>>
    /\ TELEGRAM_BOT_TOKEN = BotToken /\ TELEGRAM_WEBHOOK_SECRET = <<>>
    /\ request = NoRecord /\ response = NoRecord /\ parsed_message = NoRecord
    /\ ops = <<>> /\ outbox = <<>> /\ background_tasks = <<>> /\ handled = 0
    /\ store = EmptyStore
    /\ calls = <<>>
    /\ job = <<>>
    /\ HarnessIdle

PostPayWebhook ==
    \E from \in {Alice, Bob} :
        Handle(PayPostFrom(from), whatsapp_webhook(PayPostFrom(from)))

\* a job runs until save_qrcode_image has written qrcodes/qrcode.jpg; a job
\* that fails before that ends here
StartPaymentJob ==
    \E i \in 1..Len(background_tasks), order \in {"created", "error"},
       qr \in {"saved", "error"} :
        LET task == background_tasks[i]
            effect == process_payment_request(task.from_number, order, qr, store)
            uploads == ~effect.failed
            sends == IF uploads
                     THEN SubSeq(effect.sends, 1, Len(effect.sends) - 1)
                     ELSE effect.sends
        IN  /\ task.func = "process_payment_request"
            /\ outbox' = outbox \o sends
            /\ calls' = calls \o effect.calls
            /\ store' = effect.store
            /\ job' = Append(job, [task |-> task,
                                   pc |-> IF uploads THEN "upload" ELSE "done",
                                   qr_code |-> IF uploads THEN effect.store.qrcode_jpg
                                               ELSE None,
                                   uploaded |-> None])
            /\ background_tasks' = [k \in 1..(Len(background_tasks) - 1) |->
                                       IF k < i THEN background_tasks[k]
                                       ELSE background_tasks[k + 1]]
            /\ UNCHANGED <<WHATSAPP_ACCESS_TOKEN, WHATSAPP_APP_SECRET,
                           TELEGRAM_BOT_TOKEN, TELEGRAM_WEBHOOK_SECRET,
                           request, response, parsed_message, ops, handled,
                           arg, ret, ret2, phase>>

\* upload_qrcode_image opens qrcodes/qrcode.jpg and posts what it reads; the
\* job sends the image and ends
UploadQrcodeImage ==
    \E k \in 1..Len(job) :
        /\ job[k].pc = "upload"
        /\ outbox' = Append(outbox, TextMessage(job[k].task.from_number,
                                                <<"[image] ">> \o store.qrcode_jpg))
        /\ job' = [job EXCEPT ![k].pc = "done", ![k].uploaded = store.qrcode_jpg]
        /\ UNCHANGED <<WHATSAPP_ACCESS_TOKEN, WHATSAPP_APP_SECRET,
                       TELEGRAM_BOT_TOKEN, TELEGRAM_WEBHOOK_SECRET,
                       request, response, parsed_message, ops, background_tasks,
                       handled, store, calls, arg, ret, ret2, phase>>

NextQr == PostPayWebhook \/ StartPaymentJob \/ UploadQrcodeImage

SpecQr == InitQr /\ [][NextQr]_vars

-----------------------------------------------------------------------------
(* sanitize_input: claims *)

StartsOrEndsWithSpace(s) == s # <<>> /\ (IsSpace(s[1]) \/ IsSpace(s[Len(s)]))

\* C9: sanitize_input is idempotent, sanitize_input(sanitize_input(x)) =
\* sanitize_input(x) for every x, and its result has no leading or trailing
\* whitespace.
C9_SanitizeIdempotent ==
    /\ phase \in {"once", "twice"} => ~StartsOrEndsWithSpace(ret)
    /\ phase = "twice" => ret2 = ret

\* the index of t after matching s[lo..hi], leftmost first, from index p of t;
\* Len(t) + 2 when some character finds no match
RECURSIVE MatchEnd(_, _, _, _, _)
MatchEnd(s, lo, hi, t, p) ==
    IF lo > hi THEN p
    ELSE IF p > Len(t) THEN Len(t) + 2
    ELSE IF lo = hi
    THEN IF \A j \in p..Len(t) : t[j] # s[lo]
         THEN Len(t) + 2
         ELSE 1 + CHOOSE j \in p..Len(t) :
                      t[j] = s[lo] /\ \A k \in p..(j - 1) : t[k] # s[lo]
    ELSE LET mid == (lo + hi) \div 2
         IN  MatchEnd(s, mid + 1, hi, t, MatchEnd(s, lo, mid, t, p))

\* s is t with some characters left out, the others in their order
IsSubsequence(s, t) == MatchEnd(s, 1, Len(s), t, 1) <= Len(t) + 1

\* C10: the result of sanitize_input has none of the characters < > { } [ ] \,
\* is at most 500 characters long, keeps characters of the input in their
\* original order, and is the empty string for an empty or null input.
C10_SanitizeResult ==
    phase \in {"once", "twice"} =>
        /\ \A i \in 1..Len(ret) : ret[i] \notin {"<", ">", "{", "}", "[", "]", "\\"}
        /\ Len(ret) <= 500
        /\ arg # None => IsSubsequence(ret, arg)
        /\ (arg = None \/ arg = <<>>) => ret = <<>>

\* a long input with a harmful character has been cut and cleaned
C10_Witness ==
    /\ phase = "once"
    /\ arg # None
    /\ Len(arg) > 500
    /\ \E i \in 1..Len(arg) : arg[i] \in HarmfulChars
    /\ Len(ret) = 500

-----------------------------------------------------------------------------
(* verify_whatsapp_webhook: claims *)

\* C8: with a secret configured, verify_whatsapp_webhook is true exactly when
\* the header is "sha256=" followed by the hex HMAC-SHA256 of the body under
\* that secret (false for another body's signature and for a missing or
\* malformed header); with no secret configured it is true for every body and
\* header.
C8_VerifyExactlySigned ==
    phase = "verified" =>
        LET header == arg.request.headers.X_Hub_Signature_256
        IN  IF WHATSAPP_APP_SECRET = <<>>
            THEN ret = TRUE
            ELSE ret = (/\ header # NoRecord
                        /\ header.scheme = "sha256="
                        /\ header.hexdigest.key = WHATSAPP_APP_SECRET
                        /\ header.hexdigest.msg = arg.body)

\* the signature of one body, under the configured secret, presented with
\* another body is refused
C8_Witness ==
    /\ phase = "verified"
    /\ WHATSAPP_APP_SECRET = AppSecret
    /\ arg.request.headers.X_Hub_Signature_256 # NoRecord
    /\ arg.request.headers.X_Hub_Signature_256.scheme = "sha256="
    /\ arg.request.headers.X_Hub_Signature_256.hexdigest.key = AppSecret
    /\ arg.request.headers.X_Hub_Signature_256.hexdigest.msg # arg.body
    /\ ret = FALSE

-----------------------------------------------------------------------------
(* The handlers: claims *)

IsWhatsappPost(req) == req.type = "POST /webhook/whatsapp"
IsTelegramPost(req) == req.type = "POST /webhook/telegram"
IsPost(req) == IsWhatsappPost(req) \/ IsTelegramPost(req)

\* the platform's credentials are present
Configured(req) ==
    IF IsWhatsappPost(req) THEN Truthy(WHATSAPP_ACCESS_TOKEN)
    ELSE Truthy(TELEGRAM_BOT_TOKEN)

SecretSet(req) ==
    IF IsWhatsappPost(req) THEN WHATSAPP_APP_SECRET # <<>>
    ELSE TELEGRAM_WEBHOOK_SECRET # <<>>

\* the request carries the signature, or the secret token, the platform makes
SignatureMatches(req) ==
    IF IsWhatsappPost(req)
    THEN req.headers.X_Hub_Signature_256 =
            SignatureHeader("sha256=", hmac_sha256_hexdigest(WHATSAPP_APP_SECRET, req.body))
    ELSE req.headers.X_Telegram_Bot_Api_Secret_Token = TELEGRAM_WEBHOOK_SECRET

\* a handler has just answered a request
Answered == handled' = handled + 1

NothingSentOrScheduled == outbox' = outbox /\ background_tasks' = background_tasks

ChickenRiceRequestArgs ==
    [ingredients |-> <<<<"c", "h", "i", "c", "k", "e", "n">>, <<"r", "i", "c", "e">>>>,
     cuisine |-> <<"I", "t", "a", "l", "i", "a", "n">>,
     dietary_restrictions |-> <<<<"v", "e", "g", "e", "t", "a", "r", "i", "a", "n">>>>,
     cooking_time |-> <<45>>]

\* C1: a WhatsApp POST with a valid signature and the text body
\* "chicken, rice | Italian | vegetarian | 45" is normalized to a recipe
\* request with ingredients chicken and rice, cuisine Italian, restriction
\* vegetarian and cooking time 45; exactly one generate-recipe job with these
\* arguments is scheduled and the answer is 200 with status "processing".
C1_EndToEndScenario ==
    [][(/\ Answered
        /\ IsWhatsappPost(request')
        /\ Configured(request')
        /\ (SecretSet(request') => SignatureMatches(request'))
        /\ request'.body = JsonBody(Payload(<<TextMessageFrom(Alice, ChickenRiceBody)>>)))
       => /\ parsed_message'.type = "recipe_request"
          /\ background_tasks' = background_tasks \o
                <<[func |-> "process_recipe_request", from_number |-> Alice,
                   recipe_request |-> ChickenRiceRequestArgs]>>
          /\ outbox' = outbox
          /\ response'.status_code = 200
          /\ response'.status = "processing"]_vars

\* the keyword sets in the order of the classification, with their intents
KeywordOrder ==
    <<[intent |-> "payment_request", words |-> PaymentRequestWords],
      [intent |-> "payment_status", words |-> PaymentStatusWords],
      [intent |-> "payment_confirmation", words |-> PaymentConfirmationWords],
      [intent |-> "account_info", words |-> AccountInfoWords],
      [intent |-> "start", words |-> StartWords],
      [intent |-> "help", words |-> HelpWords],
      [intent |-> "more_options", words |-> MoreWords],
      [intent |-> "thank_you", words |-> ThankYouWords],
      [intent |-> "goodbye", words |-> GoodbyeWords],
      [intent |-> "how_are_you", words |-> HowAreYouWords],
      [intent |-> "capabilities", words |-> CapabilitiesWords]>>

\* the sets of KeywordOrder with a member contained in the text
MatchingSets(text) ==
    {k \in 1..Len(KeywordOrder) :
        \E w \in 1..Len(KeywordOrder[k].words) : Contains(KeywordOrder[k].words[w], text)}

\* C2: keyword classification is first-match-wins in the listed order: for a
\* non-blank text body the intent is that of the earliest keyword set with a
\* member contained in the lower-cased body; a body containing a payment
\* keyword is a payment request whatever later keywords it contains.
C2_FirstMatchWins ==
    (phase = "parsed" /\ Strip(arg) # <<>>) =>
        LET matching == MatchingSets(Lower(Strip(arg)))
        IN  /\ matching # {} => ret.type = KeywordOrder[Min(matching)].intent
            /\ 1 \in matching => ret.type = "payment_request"
            /\ matching = {} => ret.type \in {"recipe_request", "no_ingredients"}

\* "I want to pay for premium, thanks" is a payment request, not a thank-you
C2_Witness ==
    /\ phase = "parsed"
    /\ arg = PayPremiumThanksBody
    /\ {1, 8} \subseteq MatchingSets(Lower(Strip(arg)))
    /\ ret.type = "payment_request"

\* C3: on both webhook POST endpoints, configured and with a signing secret
\* set, a request whose signature or secret token does not match is answered
\* 401, and nothing is normalized, sent or scheduled in that request.
C3_BadSignatureIs401 ==
    [][(/\ Answered
        /\ IsPost(request')
        /\ Configured(request')
        /\ SecretSet(request')
        /\ ~SignatureMatches(request'))
       => /\ response'.status_code = 401
          /\ parsed_message' = NoRecord
          /\ NothingSentOrScheduled]_vars

\* C4: in the WhatsApp POST handler the body is JSON-decoded and normalized
\* only after verify_whatsapp_webhook has returned true for the raw bytes.
C4_VerifyBeforeDecoding ==
    (request # NoRecord /\ IsWhatsappPost(request)) =>
        \A i \in 1..Len(ops) :
            ops[i] \in {"json", "parse"} =>
                \E j \in 1..(i - 1) : ops[j] = "verify_ok"

\* C5: on both webhook POST endpoints, configured and with the signature
\* check passed (or no secret set), a body that is not valid JSON is answered
\* 400, and nothing is sent or scheduled.
C5_MalformedJsonIs400 ==
    [][(/\ Answered
        /\ IsPost(request')
        /\ Configured(request')
        /\ (SecretSet(request') => SignatureMatches(request'))
        /\ ~request'.body.json)
       => /\ response'.status_code = 400
          /\ NothingSentOrScheduled]_vars

\* C6: without the platform credentials the webhook POST handler answers 501
\* whatever the body and headers are, before reading the body, checking the
\* signature, sending a message or scheduling a job.
C6_Unconfigured501 ==
    [][(/\ Answered
        /\ IsPost(request')
        /\ ~Configured(request'))
       => /\ response'.status_code = 501
          /\ ops' = <<>>
          /\ parsed_message' = NoRecord
          /\ NothingSentOrScheduled]_vars

\* a WhatsApp request that is not JSON and unsigned, with a secret set and no
\* access token, got 501
C6_Witness ==
    /\ request # NoRecord
    /\ IsWhatsappPost(request)
    /\ ~Truthy(WHATSAPP_ACCESS_TOKEN)
    /\ WHATSAPP_APP_SECRET # <<>>
    /\ ~request.body.json
    /\ request.headers.X_Hub_Signature_256 = NoRecord
    /\ response.status_code = 501

\* C7: the WhatsApp GET verification endpoint answers 200 with hub.challenge
\* as plain text if and only if hub.mode is "subscribe" and hub.verify_token
\* equals a configured verify secret; for every other combination of query
\* parameters and configuration it answers 403.
C7_VerifyEndpoint ==
    (request # NoRecord /\ request.type = "GET /webhook/whatsapp") =>
        IF /\ request.query_params.hub_mode = Subscribe
           /\ Truthy(WHATSAPP_VERIFY_TOKEN)
           /\ request.query_params.hub_verify_token = WHATSAPP_VERIFY_TOKEN
        THEN /\ response.status_code = 200
             /\ response.media_type = "text/plain"
             /\ response.content = request.query_params.hub_challenge
        ELSE response.status_code = 403


-----------------------------------------------------------------------------
(* The tokenizer: claims, over one text body sent to either webhook *)

\* the normalizer of the webhook made a RecipeRequest of the text
IsRecipeRequest ==
    /\ handled = 1
    /\ parsed_message # NoRecord
    /\ parsed_message.type = "recipe_request"

\* the '|' segments of the text sent, and the tokens of its n-th segment
Segments == Split(Strip(arg), "|")

TokensOf(n) == IF Len(Segments) >= n THEN Split(Segments[n], ",") ELSE <<>>

NotEmpty(s) == s # <<>>

\* the sanitized and trimmed tokens that are not empty, in their order
SanitizedTokens(tokens) == SelectSeq(MapSeq(StripAndSanitize, tokens), NotEmpty)

\* C11: in every RecipeRequest of either normalizer, ingredients is a
\* non-empty sequence of non-empty sanitized strings: the sanitized tokens of
\* the first segment that are non-empty after sanitizing and trimming, in
\* their order, duplicates kept; a token that sanitizes to "" does not appear.
C11_IngredientsNonEmpty ==
    IsRecipeRequest =>
        /\ parsed_message.ingredients # <<>>
        /\ \A i \in 1..Len(parsed_message.ingredients) :
               parsed_message.ingredients[i] # <<>>
        /\ parsed_message.ingredients = SanitizedTokens(TokensOf(1))

\* C12: in every RecipeRequest of either normalizer, dietary_restrictions has
\* no empty string: it is the non-empty sanitized tokens of the third segment
\* in order ("r1, ,r2" gives r1, r2), empty when the segment is absent or blank.
C12_RestrictionsNonEmpty ==
    IsRecipeRequest =>
        /\ \A i \in 1..Len(parsed_message.dietary_restrictions) :
               parsed_message.dietary_restrictions[i] # <<>>
        /\ parsed_message.dietary_restrictions = SanitizedTokens(TokensOf(3))

\* C13: on both platforms cooking_time is the integer of the first run of
\* digits of the fourth segment (" 30min" gives 30), None when the segment is
\* absent, blank or without digit; segments after the fourth are ignored.
C13_CookingTimeFirstDigits ==
    IsRecipeRequest =>
        parsed_message.cooking_time =
            IF Len(Segments) >= 4 THEN SearchDigits(Segments[4]) ELSE <<>>

\* a text that is not blank, matches no keyword, and whose first segment has
\* no non-blank token
NoIngredientToken ==
    /\ NonBlank(arg)
    /\ KeywordType(Lower(Strip(arg))) = ""
    /\ \A i \in 1..Len(TokensOf(1)) : ~NonBlank(TokensOf(1)[i])

\* C14: for a non-blank text that matches no keyword and whose first segment
\* has no non-blank token (" , , ", "| Thai"), the WhatsApp normalizer gives
\* NoIngredients and the Telegram normalizer the error intent "No ingredients
\* provided"; neither raises: the handler answers 200, sends the sender the
\* one no-ingredients text of its platform and schedules no job.
C14_NoIngredientsReply ==
    (handled = 1 /\ NoIngredientToken) =>
        /\ response = JsonResponse("success")
        /\ background_tasks = <<>>
        /\ IF IsWhatsappPost(request)
           THEN /\ parsed_message = [type |-> "no_ingredients", from_number |-> Alice]
                /\ outbox = <<TextMessage(Alice, "get_no_ingredients_message")>>
           ELSE /\ parsed_message = [type |-> "error", chat_id |-> 7,
                                     error |-> "No ingredients provided"]
                /\ outbox = <<[chat_id |-> 7,
                               text |-> "Error: No ingredients provided. Type /help for instructions."]>>

\* "| Thai " has been sent to the WhatsApp webhook and answered
C14_Witness ==
    /\ handled = 1
    /\ NoIngredientToken
    /\ IsWhatsappPost(request)
    /\ arg = <<"|", " ", "T", "h", "a", "i", " ">>
    /\ parsed_message.type = "no_ingredients"

\* C15: in every RecipeRequest of either normalizer, cooking_time is None or
\* a strictly positive integer: "0" and "000" never give 0, nothing gives a
\* negative value.
C15_CookingTimePositive ==
    IsRecipeRequest =>
        \/ parsed_message.cooking_time = <<>>
        \/ parsed_message.cooking_time[1] > 0

-----------------------------------------------------------------------------
(* The WhatsApp router: claims *)

\* the handler of the request gets as far as the normalizer
Accepted(req) ==
    /\ Configured(req)
    /\ req.body.json
    /\ SecretSet(req) => SignatureMatches(req)

\* no entry/change/value of the payload has a non-empty messages list
CarriesNoMessage(data) ==
    \A e \in 1..Len(data.entry) :
        \A c \in 1..Len(data.entry[e].changes) :
            data.entry[e].changes[c].value.messages = <<>>

\* C16: for a WhatsApp payload in which no entry/change/value carries a
\* non-empty messages list (a delivery-status callback, an empty entry list)
\* the normalizer returns None and the POST handler answers 200 with status
\* "ignored", sends nothing, schedules nothing and writes nothing to the store.
C16_NoMessagesIgnored ==
    [][(/\ Answered
        /\ IsWhatsappPost(request')
        /\ Accepted(request')
        /\ CarriesNoMessage(request'.body.data))
       => /\ parsed_message' = NoRecord
          /\ response' = JsonResponse("ignored")
          /\ NothingSentOrScheduled
          /\ store' = store]_vars

\* a signed delivery-status callback, with the app secret set, was ignored
C16_Witness ==
    /\ request # NoRecord
    /\ IsWhatsappPost(request)
    /\ WHATSAPP_APP_SECRET # <<>>
    /\ Accepted(request)
    /\ request.body.data = Payload(<<>>)
    /\ parsed_message = NoRecord
    /\ response = JsonResponse("ignored")

\* C17: a WhatsApp message of type interactive is normalized to
\* ButtonInteraction with the button id when its subtype is button_reply and
\* to ListInteraction with the list id when it is list_reply; every other
\* non-text message, interactive of another subtype included, is normalized
\* to Unsupported; for ButtonInteraction and ListInteraction the POST handler
\* answers 200, sends no message and schedules no job.
C17_InteractiveMessages ==
    (handled = 1 /\ arg.type # "text") =>
        /\ response.status_code = 200
        /\ IF arg.type = "interactive" /\ arg.interactive_type = "button_reply"
           THEN /\ parsed_message = [type |-> "button_interaction",
                                     from_number |-> arg.from,
                                     button_id |-> arg.button_reply_id]
                /\ outbox = <<>> /\ background_tasks = <<>>
           ELSE IF arg.type = "interactive" /\ arg.interactive_type = "list_reply"
           THEN /\ parsed_message = [type |-> "list_interaction",
                                     from_number |-> arg.from,
                                     list_id |-> arg.list_reply_id]
                /\ outbox = <<>> /\ background_tasks = <<>>
           ELSE parsed_message = [type |-> "unsupported", from_number |-> arg.from]

\* a list reply that also has a button id was normalized and answered
C17_Witness ==
    /\ handled = 1
    /\ arg.type = "interactive" /\ arg.interactive_type = "list_reply"
    /\ arg.list_reply_id = <<"o", "p", "t", "2">>
    /\ arg.button_reply_id = <<"b", "1">>
    /\ parsed_message.type = "list_interaction"
    /\ response.status_code = 200

\* the deferred job of an intent: create payment, fetch payment history,
\* fetch account, generate recipe
DeferredJob ==
    [payment_request |-> "process_payment_request",
     payment_status |-> "process_payment_status_request",
     account_info |-> "process_account_info_request",
     recipe_request |-> "process_recipe_request"]

\* C18: the WhatsApp router is a deterministic total mapping from intent type
\* to action: for Start, Help, Empty, NoIngredients, Unsupported, MoreOptions,
\* ThankYou, Goodbye, HowAreYou, Capabilities and PaymentConfirmation it
\* sends exactly one canned reply, fixed by the type, to the sender and
\* schedules no job; for PaymentRequest, PaymentStatus, AccountInfo and
\* RecipeRequest it sends nothing and schedules exactly one job (create
\* payment, fetch payment history, fetch account, generate recipe) addressed
\* to the sender; the HTTP status is 200 in every case.
C18_RouterTable ==
    handled = 1 =>
        /\ response.status_code = 200
        /\ IF arg.type \in ImmediateIntents
           THEN /\ outbox = <<TextMessage(arg.from_number, WhatsappReply[arg.type])>>
                /\ background_tasks = <<>>
           ELSE /\ outbox = <<>>
                /\ Len(background_tasks) = 1
                /\ background_tasks[1].func = DeferredJob[arg.type]
                /\ background_tasks[1].from_number = arg.from_number
                /\ arg.type = "recipe_request" =>
                       background_tasks[1].recipe_request =
                           [ingredients |-> arg.ingredients,
                            cuisine |-> arg.cuisine,
                            dietary_restrictions |-> arg.dietary_restrictions,
                            cooking_time |-> arg.cooking_time]

\* the payment status intent of Bob has been routed to its job
C18_Witness ==
    /\ handled = 1
    /\ arg = [type |-> "payment_status", from_number |-> Bob]
    /\ response = JsonResponse("processing")
    /\ background_tasks =
           <<[func |-> "process_payment_status_request", from_number |-> Bob]>>

-----------------------------------------------------------------------------
(* The deferred jobs: claims *)

\* a handler has just given the framework a task
Scheduled == Answered /\ Len(background_tasks') = Len(background_tasks) + 1

\* the framework has just run a task
JobRan == Len(background_tasks') = Len(background_tasks) - 1

\* the message a job sends when its backend failed
FailureMessage(task) ==
    IF IsTelegramTask(task)
    THEN TelegramMessage(task.chat_id, TelegramRecipeError)
    ELSE IF task.func = "process_recipe_request"
    THEN TextMessage(task.from_number, Canned("get_error_message"))
    ELSE TextMessage(task.from_number, Canned("get_payment_failed_message"))

\* C19: a failure inside a deferred job never reaches the HTTP layer and is
\* never retried: for every recipe-request or payment-request webhook the
\* response (200, "processing") is produced before the job runs; the job
\* calls its backend once, and if the backend returns nothing or raises, the
\* job catches the error, sends the sender the canned failure message and
\* ends without raising; the task is not run again.
C19_JobFailureContained ==
    [][/\ Scheduled =>
            /\ response' = JsonResponse("processing")
            /\ calls' = calls /\ outbox' = outbox /\ job' = job
       /\ JobRan =>
            /\ response' = response
            /\ job'.result = "returned"
            /\ Len(calls') = Len(calls) + 1
            /\ job'.failed =>
                 /\ outbox' # outbox
                 /\ outbox'[Len(outbox')] = FailureMessage(job'.task)]_vars

\* the recipe job of a WhatsApp request answered "processing" failed in its
\* backend and told the sender
C19_Witness ==
    /\ job # NoRecord
    /\ job.failed
    /\ job.task.func = "process_recipe_request"
    /\ ~IsTelegramTask(job.task)
    /\ response = JsonResponse("processing")
    /\ calls = <<"generate_recipe">>
    /\ outbox = <<TextMessage(Alice, Canned("get_processing_message")),
                  TextMessage(Alice, Canned("get_error_message"))>>

-----------------------------------------------------------------------------
(* The formatters: claims *)

\* the title is missing, null, empty or whitespace only
BlankTitle(recipe) ==
    recipe.title \in {KeyAbsent, None} \/ Strip(recipe.title) = <<>>

LinesOf(text) == Split(text, "\n")

\* the text has a line that carries the title between two fixed pieces
RendersTitle(text, before, title, after) ==
    \E k \in 1..Len(LinesOf(text)) : LinesOf(text)[k] = before \o title \o after

\* C20: the recipe formatter returns its fixed apology string whenever the
\* title is blank (empty, missing, whitespace only), whatever the ingredients,
\* instructions and other fields, and renders the recipe whenever the title
\* is not blank; for the WhatsApp formatter and for the Telegram formatter.
C20_BlankTitleApology ==
    /\ ret # None =>
          IF BlankTitle(arg)
          THEN ret = WhatsappApology
          ELSE RendersTitle(ret, <<"*">>, arg.title, <<"*">>)
    /\ ret2 # None =>
          IF BlankTitle(arg)
          THEN ret2 \in {TelegramNoIngredients, TelegramFormatError}
          ELSE RendersTitle(ret2, <<"*[cooking] ">>, arg.title, <<" [cooking]*">>)

IsBulletLine(line) == line # <<>> /\ line[1] = "[bullet] "

IsNumberedLine(line) == line # <<>> /\ IsDigit(line[1])

\* the text has one bullet line per ingredient and one numbered line per
\* instruction, labelled from 1, in the order of the recipe
ListsRendered(text, recipe) ==
    LET bullets == SelectSeq(LinesOf(text), IsBulletLine)
        numbered == SelectSeq(LinesOf(text), IsNumberedLine)
    IN  /\ bullets = [i \in 1..Len(recipe.ingredients) |->
                         <<"[bullet] ">> \o recipe.ingredients[i]]
        /\ Len(numbered) = Len(recipe.instructions)
        /\ \A k \in 1..Len(numbered) :
               \/ numbered[k] = IntToText(k) \o <<".", " ">> \o recipe.instructions[k]
               \/ numbered[k] = IntToText(k) \o <<"\\", ".", " ">>
                                    \o recipe.instructions[k]

\* C21: for a recipe with a non-blank title, n ingredients and m instructions
\* (n, m >= 0) the formatter's output has exactly n bullet lines, one per
\* ingredient in order, and exactly m numbered lines labelled 1 to m, each
\* with the instruction at that position; with n = 0 or m = 0 it still
\* returns a rendering and does not raise.
C21_BulletAndNumberedLines ==
    ~BlankTitle(arg) =>
        /\ ret # None =>
              /\ RendersTitle(ret, <<"*">>, arg.title, <<"*">>)
              /\ ListsRendered(ret, arg)
        /\ ret2 # None =>
              /\ RendersTitle(ret2, <<"*[cooking] ">>, arg.title, <<" [cooking]*">>)
              /\ ListsRendered(ret2, arg)

-----------------------------------------------------------------------------
(* The Telegram normalizer: claims *)

HasText(update) == update.message # NoRecord /\ update.message.text # None

\* the text of the update without blanks around it and without a leading
\* /recipe
AfterRecipeCommand(update) ==
    LET s == Strip(update.message.text)
    IN  IF StartsWith(s, RecipeCommand)
        THEN Strip(SubSeq(s, Len(RecipeCommand) + 1, Len(s)))
        ELSE s

HasSeparator(text) == \E i \in 1..Len(text) : text[i] \in {"|", ","}

\* C22: the Telegram normalizer returns None when the update has no message
\* or the message has no text; otherwise Start for the command /start, Help
\* for the command /help; it strips a leading /recipe, compared exactly and
\* case-sensitively, then returns Empty if the rest is blank and tokenizes
\* the rest otherwise; it classifies no keyword: "hello" and "pay" give a
\* RecipeRequest with that text as the single ingredient.
C22_TelegramNormalizer ==
    handled = 1 =>
        IF ~HasText(arg) THEN parsed_message = NoRecord
        ELSE arg.message.chat # NoRecord =>
            LET s == Strip(arg.message.text)
                rest == AfterRecipeCommand(arg)
            IN  IF StartsWith(s, StartCommand) THEN parsed_message.type = "start"
                ELSE IF StartsWith(s, HelpCommand) THEN parsed_message.type = "help"
                ELSE IF rest = <<>> THEN parsed_message.type = "empty"
                ELSE /\ parsed_message.type \in {"recipe_request", "error"}
                     /\ parsed_message = TelegramRecipeRequest(7, rest)
                     /\ ~HasSeparator(rest) =>
                            /\ parsed_message.type = "recipe_request"
                            /\ parsed_message.ingredients = <<sanitize_input(rest)>>

\* "/recipe pay" was sent and became a recipe request for "pay"
C22_Witness ==
    /\ handled = 1
    /\ HasText(arg)
    /\ arg.message.text = <<"/", "r", "e", "c", "i", "p", "e", " ", "p", "a", "y">>
    /\ parsed_message.type = "recipe_request"
    /\ parsed_message.ingredients = <<PayBody>>

-----------------------------------------------------------------------------
(* The payment service: claims *)

TerminalStatuses == {"success", "failed", "cancelled"}

\* C23: every payment is stored with status pending when it is created;
\* after any sequence of create_upi_payment_link, process_payment_request
\* and verify_payment calls the stored status of a payment is one of pending,
\* success, failed, cancelled; it changes only from pending to a terminal
\* status, through verification, and once terminal it never changes again.
C23_PaymentLifecycle ==
    [][/\ \A i \in 1..Len(store'.payments) :
             /\ store'.payments[i].status \in PaymentStatusValues
             /\ i > Len(store.payments) => store'.payments[i].status = "pending"
       /\ \A i \in 1..Len(store.payments) :
             store'.payments[i].status # store.payments[i].status =>
                 /\ store.payments[i].status = "pending"
                 /\ store'.payments[i].status \in TerminalStatuses
                 /\ calls' = Append(calls, "verify_payment")]_vars

-----------------------------------------------------------------------------
(* The recipe API: claims *)

\* C24: a POST /api/v1/recipes/generate whose ingredients list is empty is
\* rejected with HTTP 400: the recipe backend is not called and no recipe is
\* stored.
C24_EmptyIngredientsRejected ==
    [][(/\ request'.type = "POST /api/v1/recipes/generate"
        /\ request'.has_ingredients
        /\ request'.ingredients = <<>>)
       => /\ response'.status_code = 400
          /\ calls' = calls
          /\ store' = store]_vars

-----------------------------------------------------------------------------
(* parse_recipe_from_llm: claims *)

\* a text with no title, ingredients, instructions or cooking-time section
NoSections(text) ==
    \A key \in {TitleKey, IngredientsKey, InstructionsKey, StepsKey,
                CookingTimeKey} : ~Contains(key, Lower(text))

\* C25: parse_recipe_from_llm fails with ValueError for every response text
\* that has no title, ingredients, instructions or cooking-time section, and
\* generate_recipe then fails too instead of returning and storing a recipe
\* with an empty title and empty lists.
C25_UnformattedTextRejected ==
    NoSections(arg) =>
        /\ phase \in {"parsed", "generated"} => ret.raised
        /\ phase = "generated" => ret2.raised /\ store.recipes = <<>>

-----------------------------------------------------------------------------
(* The keyword chain: claims *)

\* the keyword sets with the intent each one stands for
KeywordSets ==
    {[words |-> PaymentRequestWords, type |-> "payment_request"],
     [words |-> PaymentStatusWords, type |-> "payment_status"],
     [words |-> PaymentConfirmationWords, type |-> "payment_confirmation"],
     [words |-> AccountInfoWords, type |-> "account_info"],
     [words |-> StartWords, type |-> "start"],
     [words |-> HelpWords, type |-> "help"],
     [words |-> MoreWords, type |-> "more_options"],
     [words |-> ThankYouWords, type |-> "thank_you"],
     [words |-> GoodbyeWords, type |-> "goodbye"],
     [words |-> HowAreYouWords, type |-> "how_are_you"],
     [words |-> CapabilitiesWords, type |-> "capabilities"]}

\* C26: every listed keyword phrase of a set selects the intent of its own
\* set when it is the whole body of a text message, so that every
\* keyword-classified intent is reachable and no set is shadowed by an
\* earlier one.
C26_PhraseSelectsOwnIntent ==
    phase = "parsed" =>
        \A set \in KeywordSets :
            arg \in SetOf(set.words) => ret.type = set.type

\* no body of the harness is classified as a payment status query
PaymentStatusUnreached == phase = "parsed" => ret.type # "payment_status"

-----------------------------------------------------------------------------
(* Overlapping recipe jobs: claims *)

ProcessingNotice(to) == TextMessage(to, Canned("get_processing_message"))

ErrorMessage(to) == TextMessage(to, Canned("get_error_message"))

\* the messages of a started job: the processing notice to its sender, and
\* once it ended exactly one more message to the same sender, the error
\* message if the backend failed and something else if it did not
OneTerminalMessage(j) ==
    LET to == j.task.from_number
    IN  /\ j.sends[1] = ProcessingNotice(to)
        /\ j.pc = "generate_recipe" => j.sends = <<ProcessingNotice(to)>>
        /\ j.pc = "done" =>
               /\ Len(j.sends) = 2
               /\ j.sends[2].to = to
               /\ j.failed => j.sends[2] = ErrorMessage(to)
               /\ ~j.failed => j.sends[2] \notin {ErrorMessage(to), ProcessingNotice(to)}

\* C27: every WhatsApp recipe webhook schedules a job of its own, whatever
\* jobs of the same sender are pending or running, and every job sends to
\* its sender the processing notice and then exactly one terminal message,
\* the recipe or the canned error message, whatever the backend and the user
\* lookup and save do.
C27_OwnJobOneTerminalMessage ==
    [][/\ handled' # handled =>
              /\ Len(background_tasks') = Len(background_tasks) + 1
              /\ background_tasks'[Len(background_tasks')].from_number
                     = parsed_message'.from_number
       /\ \A k \in 1..Len(job') : OneTerminalMessage(job'[k])]_vars

\* two jobs of one sender ran at the same time: the second sent its notice
\* before the first ended; one ended with the recipe, the other with the
\* error message
C27_Witness ==
    /\ Len(job) = 2
    /\ job[1].task.from_number = job[2].task.from_number
    /\ job[1].pc = "done" /\ job[2].pc = "done"
    /\ job[1].failed # job[2].failed
    /\ Len(outbox) = 4
    /\ outbox[2] = ProcessingNotice(job[2].task.from_number)
    /\ background_tasks = <<>>

\* C29: process_recipe_request never changes the stored record of a user who
\* exists, whatever the lookup answers; it only adds a non-premium row for a
\* sender who has none.
C29_ExistingUserUntouched ==
    [][/\ \A u \in store.users : u \in store'.users
       /\ \A u \in store'.users \ store.users :
              /\ ~u.is_premium
              /\ ~HasUser(store, u.phone_number)]_vars

-----------------------------------------------------------------------------
(* The payment job: claims *)

\* the messages the step sent
NewlySent == {outbox'[k] : k \in (Len(outbox) + 1)..Len(outbox')}

IsPaymentFailed(m) == m.text = Canned("get_payment_failed_message")

IsPaymentInstructions(m) == m.text[1] = "get_payment_instructions_message "

\* C28: process_payment_request sends the "Payment Failed" message only if
\* the job created no payment and sent no payment instructions; a failure
\* after the instructions (decoding the QR image, writing the file, the
\* upload) does not make the job say that the payment failed.
C28_FailedOnlyWithoutPayment ==
    [][(\E m \in NewlySent : IsPaymentFailed(m))
       => /\ store'.payments = store.payments
          /\ ~\E m \in NewlySent : IsPaymentInstructions(m)]_vars

-----------------------------------------------------------------------------
(* Overlapping payment jobs: claims *)

====
